---------------------------- MODULE Spec2Model ----------------------------
(***************************************************************************)
(* Model of the UGREEN NAS API client (custom_components/ugreen/api.py):   *)
(* the login exchange, the request helper with its 1024 re-login, and the  *)
(* cached capability probe, run by concurrent asyncio tasks on one client; *)
(* the data layer on top of it (utils.py: path extraction, value           *)
(* formatting, entity building, the fetch pass); the setup of a config     *)
(* entry (__init__.py); and the keep-alive sidecar of the addon            *)
(* (addons/ws_keepalive.py, addons/main.py).                               *)
(*                                                                         *)
(* asyncio tasks are cooperative: a task runs until it awaits something    *)
(* that is not ready (a lock that is held, an HTTP response).  Each action *)
(* below is one such run of one task: it starts where the task was         *)
(* suspended and ends at the task's next suspension or at its return.      *)
(***************************************************************************)
EXTENDS Integers, Sequences, FiniteSets, TLC

\* ------------------------------------------------------------------ bounds
NumTasks == 2
MaxCalls == 3

Tasks == 1..NumTasks

\* ------------------------------------------------------- program constants
CodeOk == 200
CodeTokenExpired == 1024
DeviceCodes == {CodeOk, CodeTokenExpired, 500}

\* ---------------------------------------------------------- JSON mappings
EmptyMap == [k \in {} |-> 0]
Put(m, k, v) == [x \in DOMAIN m \cup {k} |-> IF x = k THEN v ELSE m[x]]
Get(m, k, dflt) == IF k \in DOMAIN m THEN m[k] ELSE dflt
None == [None |-> TRUE]

\* What the device answers to one HTTP exchange.  exc: the exchange raised
\* (timeout, connection error, raise_for_status on a non-2xx status).
TransportFailure == [exc |-> TRUE]
Raised(o) == "exc" \in DOMAIN o

VARIABLES
    token,                          \* self.token ("" = no token)
    _authed,                        \* self._authed
    _login_lock,                    \* holder of self._login_lock, 0 = free
    _dynamic_entity_counts,         \* self._dynamic_entity_counts
    _dynamic_entity_counts_lock,    \* holder of the probe lock, 0 = free
    task,                           \* per task: the call it runs and where it is
    calls,                          \* number of top-level calls made so far
    requested,                      \* history: gets the probe made, per endpoint
    raised,                         \* history: the probe's try block raised
    call,                           \* one call of a function of the data layer
    fetch,                          \* one get_entity_data_from_api() pass
    setup,                          \* async_setup_entry(), per config entry
    state                           \* the keep-alive addon: its state dict,
                                    \* app.state.ugreen_token, loop and hooks

clientVars == <<token, _authed, _login_lock, _dynamic_entity_counts,
                _dynamic_entity_counts_lock, task, calls, requested, raised>>
vars == <<token, _authed, _login_lock, _dynamic_entity_counts,
          _dynamic_entity_counts_lock, task, calls, requested, raised,
          call, fetch, setup, state>>


\* ------------------------------------------------ what the device may answer
\* verify/check (public key), lines 560-577: the POST raises, the x-rsa-token
\* header is missing, the header is no loadable key, or all is well.
PkOutcomes == {"ok", "transport", "no_header", "bad_key"}

\* verify/login, lines 588-601: the POST raises, or a JSON body with a code
\* and data.token ("" = token missing).
LoginOutcomes ==
    {TransportFailure} \cup [code : DeviceCodes, token : {"", "tok"}]

AbsentBody == [kind |-> "absent"]
MalformedBody == [kind |-> "malformed"]
Resp(c, b) == [code |-> c, body |-> b]

\* ------------------------------------------------------------ task records
Ops == {"authenticate", "login", "_request", "count_dynamic_entities"}

IdleTask ==
    [op |-> "none", pc |-> "idle", phase |-> "none",
     ok |-> FALSE, ret |-> EmptyMap,
     nDo |-> 0, nLogin |-> 0, first |-> 0, tok0 |-> "",
     url |-> "", exc |-> FALSE, waited |-> FALSE,
     step |-> 0, counts |-> EmptyMap, last |-> None, ans |-> None]

\* A task entering a new top-level call.
Fresh(o) == [IdleTask EXCEPT !.op = o]

\* ------------------------------------------------- probe response bodies
MaxUnits == 1

SeqsUpTo(S, n) == UNION {[1..k -> S] : k \in 0..n}

RECURSIVE SumSeq(_)
SumSeq(s) == IF s = <<>> THEN 0 ELSE Head(s) + SumSeq(Tail(s))

\* A fan entry of data.overview: a falsy value (null, absent, {} or [], all
\* replaced by [] at lines 692-693), one object with fields, or a list.
FanNull == [shape |-> "null", len |-> 0]
FanDict == [shape |-> "dict", len |-> 0]
FanList(n) == [shape |-> "list", len |-> n]

\* data.hardware of sysinfo/machine/common: lengths of mem, usb and ups.
SysinfoBodies ==
    [kind : {"ok"}, mem : 0..MaxUnits, usb : 0..1, ups : 0..1]
\* data.result of storage/disk/list: its length.
DiskBodies == [kind : {"ok"}, result : 0..MaxUnits]
\* data.result of storage/pool/list: per pool the length of its volumes.
PoolBodies == [kind : {"ok"}, result : SeqsUpTo(0..1, MaxUnits)]
\* data of taskmgr/stat/get_all: net.series names, overview fans, gpu names.
StatBodies ==
    [kind : {"ok"},
     net : {<<>>, <<"eth0">>, <<"overview", "eth0">>},
     cpu_fan : {FanNull, FanDict},
     device_fan : {FanNull, FanDict, FanList(MaxUnits)},
     gpu : {<<>>, <<"gpu">>}]

\* The four probe endpoints in the order of lines 664, 672, 676, 683.
ProbeEndpoints == 1..4
Bodies(e) ==
    {AbsentBody, MalformedBody} \cup
    (CASE e = 1 -> SysinfoBodies
       [] e = 2 -> DiskBodies
       [] e = 3 -> PoolBodies
       [] OTHER -> StatBodies)

\* What a data request may yield for a task: the request raises, or a JSON
\* mapping with a code (and, for a probe endpoint, a body).
DoOutcomes(r) ==
    {TransportFailure} \cup
    {Resp(c, b) : c \in DeviceCodes,
                  b \in IF r.step \in ProbeEndpoints THEN Bodies(r.step)
                        ELSE {AbsentBody}}

BodyOf(data) == Get(data, "body", AbsentBody)
IsOk(data) == BodyOf(data).kind = "ok"

\* len(x or []) after the dict -> [dict] normalisation of lines 694-699.
FanLenNoNormalise(f) == f.len
FanLen(f) == IF f.shape = "dict" THEN 1 ELSE f.len

NonOverview(series) ==
    SelectSeq(series, LAMBDA x : x \notin {"overview", "Overview"})

\* The keys each probe request contributes to the counts mapping.
Fields(e) ==
    CASE e = 1 -> {"num_rams", "num_usbs", "has_ups"}
      [] e = 2 -> {"num_disks"}
      [] e = 3 -> {"num_pools", "num_volumes"}
      [] OTHER -> {"num_nics", "has_cpu_fan", "num_device_fans",
                   "has_device_fan", "has_gpu"}

\* A body the probe's accessors cannot walk (a .get on a list, a len of a
\* number) raises inside the try of line 660; the stat body is only read
\* when the code is 200 (line 684).
ProbeRaises(e, data) ==
    /\ BodyOf(data).kind = "malformed"
    /\ e = 4 => Get(data, "code", 0) = CodeOk

\* Lines 664-707: the counts mapping after the answer of request e.
ProbeCounts(e, counts, data) ==
    LET b == BodyOf(data)
        ok == IsOk(data)
    IN  CASE e = 1 ->
               Put(Put(Put(counts,
                   "num_rams", IF ok THEN b.mem ELSE 0),
                   "num_usbs", IF ok THEN b.usb ELSE 0),
                   "has_ups", IF ok THEN b.ups > 0 ELSE FALSE)
          [] e = 2 ->
               Put(counts, "num_disks", IF ok THEN b.result ELSE 0)
          [] e = 3 ->
               Put(Put(counts,
                   "num_pools", IF ok THEN Len(b.result) ELSE 0),
                   "num_volumes", IF ok THEN SumSeq(b.result) ELSE 0)
          [] OTHER ->
               IF Get(data, "code", 0) # CodeOk THEN counts
               ELSE LET nics == IF ok THEN Len(NonOverview(b.net)) ELSE 0
                        cpu == IF ok THEN FanLen(b.cpu_fan) ELSE 0
                        dev == IF ok THEN FanLen(b.device_fan) ELSE 0
                        gpu == IF ok THEN \E i \in DOMAIN b.gpu : b.gpu[i] # ""
                               ELSE FALSE
                    IN  Put(Put(Put(Put(Put(counts,
                            "num_nics", nics),
                            "has_cpu_fan", cpu > 0),
                            "num_device_fans", dev),
                            "has_device_fan", dev > 0),
                            "has_gpu", gpu)

\* Lines 710-712: what the except branch caches.
OnProbeExceptionUncached == None
OnProbeException == EmptyMap

\* ------------------------------------------------------ the code's tests
\* Line 626: _request logs in first when no token is present.
NeedsLoginNever(tok) == FALSE
NeedsLogin(tok) == tok = ""

\* Line 631, reached once per call: the first answer carries code 1024.
NeedsReloginAgain(r, data) == Get(data, "code", 0) = CodeTokenExpired
NeedsRelogin(r, data) ==
    r.phase = "first" /\ Get(data, "code", 0) = CodeTokenExpired

\* Lines 593-601: the login answer is a success with a usable token.
LoginOkAnyCode(o) == ~Raised(o) /\ o.token # ""
LoginOk(o) == ~Raised(o) /\ o.code = CodeOk /\ o.token # ""

\* Lines 593-603: self.token after the login answer o.
LoginTokenReset(o, tok) == IF LoginOk(o) THEN o.token ELSE ""
LoginToken(o, tok) == IF LoginOk(o) THEN o.token ELSE tok

\* Line 554: asyncio.Lock.acquire returns at once only when the lock is not
\* held and no earlier caller is still queued for it.
LockFreeAlways(holder, waiting) == TRUE
LockFree(holder, waiting) == holder = 0 /\ ~waiting

\* Lines 655 and 658: the cached mapping is returned when there is one.
CacheHitNever(counts) == FALSE
CacheHit(counts) == counts # None

\* Lines 630-641: self.token after the answer o of a data request;
\* _request() itself never assigns the token.
TokenAfterDoCleared(o, tok) ==
    IF Raised(o) \/ o.code = CodeTokenExpired THEN "" ELSE tok
TokenAfterDo(o, tok) == tok

LoginWaiting == \E q \in Tasks : task[q].pc = "login_wait"
CountsWaiting == \E q \in Tasks : task[q].pc = "probe_wait"

\* --------------------------------- one task's run to its next suspension
\* Lines 616-623: _do() builds the URL with the current token and awaits
\* the answer.
IssueDo(r, tok) == [r EXCEPT !.pc = "do", !.nDo = @ + 1, !.url = tok]

\* Lines 552-561: login() takes the lock and posts verify/check, or queues.
LoginEnter(r, free) ==
    IF free THEN [r EXCEPT !.pc = "login_pk", !.nLogin = @ + 1,
                           !.waited = FALSE]
    ELSE [r EXCEPT !.pc = "login_wait", !.nLogin = @ + 1, !.waited = TRUE]

\* Lines 612-630: _request() up to its first suspension.
RequestEnter(r, tok, free) ==
    LET r0 == [r EXCEPT !.nDo = 0, !.nLogin = 0, !.first = 0,
                        !.tok0 = tok, !.url = "", !.exc = FALSE,
                        !.waited = FALSE, !.ret = EmptyMap]
    IN  IF NeedsLogin(tok)
        THEN LoginEnter([r0 EXCEPT !.phase = "pre"], free)
        ELSE IssueDo([r0 EXCEPT !.phase = "first"], tok)

\* Lines 709-713: the probe stores its mapping and returns it.
ProbeFinish(r, c) ==
    [IdleTask EXCEPT !.op = r.op, !.pc = "done", !.ret = c, !.last = r.last]

\* Lines 664-713: the probe takes the answer of its current get and goes on
\* to the next get, or finishes.
ProbeContinueAbort(r, data, tok, free) ==
    IF data = EmptyMap \/ ProbeRaises(r.step, data)
    THEN ProbeFinish(r, OnProbeException)
    ELSE LET c == ProbeCounts(r.step, r.counts, data)
         IN  IF r.step < 4
             THEN RequestEnter([r EXCEPT !.step = @ + 1, !.counts = c],
                               tok, free)
             ELSE ProbeFinish(r, c)
ProbeContinue(r, data, tok, free) ==
    IF ProbeRaises(r.step, data) THEN ProbeFinish(r, OnProbeException)
    ELSE LET c == ProbeCounts(r.step, r.counts, data)
         IN  IF r.step < 4
             THEN RequestEnter([r EXCEPT !.step = @ + 1, !.counts = c],
                               tok, free)
             ELSE ProbeFinish(r, c)

\* Lines 628, 637, 638, 641: _request() returns data to its caller, which is
\* the task itself or the probe's get (lines 643-644).
RequestReturn(r, data, tok, free) ==
    IF r.op = "_request"
    THEN [r EXCEPT !.pc = "done", !.ret = data, !.phase = "none", !.url = ""]
    ELSE ProbeContinue([r EXCEPT !.last = data], data, tok, free)

\* History: the answer o that ended a login() call made by the task itself.
Answered(r, o) == IF r.op = "login" THEN [r EXCEPT !.ans = o] ELSE r

\* Lines 548-550, 626-630, 633-637: login() returned okv to its caller.
LoginReturn(r, okv, tok, free) ==
    IF r.op \in {"authenticate", "login"}
    THEN [r EXCEPT !.pc = "done", !.ok = okv]
    ELSE IF okv
         THEN IssueDo([r EXCEPT !.phase = IF r.phase = "pre" THEN "first"
                                          ELSE "second"], tok)
         ELSE RequestReturn(r, EmptyMap, tok, free)

\* Lines 549 and 604: self._authed after login() returned okv to task r.
AuthedAfter(r, okv, authed) ==
    IF r.op = "authenticate" THEN okv ELSE (okv \/ authed)

\* Lines 639-641: an exception in _request() is logged and {} returned.
AfterDoExceptionRetry(r, tok, free) ==
    IF r.nDo < 2 THEN IssueDo([r EXCEPT !.exc = TRUE], tok)
    ELSE RequestReturn([r EXCEPT !.exc = TRUE], EmptyMap, tok, free)
AfterDoException(r, tok, free) ==
    RequestReturn([r EXCEPT !.exc = TRUE], EmptyMap, tok, free)

\* The shared state after task p ran to the record new.  got: what a get of
\* the probe returned in this run (None: no get returned).
Commit(p, new, tok, authed, got) ==
    /\ task' = [task EXCEPT ![p] = new]
    /\ token' = tok
    /\ _authed' = authed
    /\ _login_lock' =
           IF new.pc \in {"login_pk", "login_post"} THEN p
           ELSE IF _login_lock = p THEN 0 ELSE _login_lock
    /\ _dynamic_entity_counts_lock' =
           IF new.op = "count_dynamic_entities"
              /\ new.pc \notin {"probe_wait", "done"} THEN p
           ELSE IF _dynamic_entity_counts_lock = p THEN 0
           ELSE _dynamic_entity_counts_lock
    /\ _dynamic_entity_counts' =
           IF task[p].step \in ProbeEndpoints /\ new.pc = "done"
           THEN new.ret ELSE _dynamic_entity_counts
    /\ requested' =
           IF new.step \in ProbeEndpoints /\ new.step # task[p].step
           THEN [requested EXCEPT ![new.step] = @ + 1] ELSE requested
    /\ raised' =
           (raised \/ (got # None /\ task[p].step \in ProbeEndpoints
                          /\ ProbeRaises(task[p].step, got)))
    /\ calls' = IF task[p].pc \in {"idle", "done"} THEN calls + 1 ELSE calls
    /\ UNCHANGED <<call, fetch, setup, state>>

\* ------------------------------------------------------------------ Init
\* Lines 513-542: the client as constructed, with or without a seed token.
ClientInit ==
    /\ token \in {"", "seed"}
    /\ _authed = (token # "")
    /\ _login_lock = 0
    /\ _dynamic_entity_counts = None
    /\ _dynamic_entity_counts_lock = 0
    /\ task = [p \in Tasks |-> IdleTask]
    /\ requested = [e \in ProbeEndpoints |-> 0]
    /\ calls = 0
    /\ raised = FALSE

\* The client alone: no data-layer call, no fetch pass, no setup under way.
Init ==
    /\ ClientInit
    /\ call = None
    /\ fetch = None
    /\ setup = None
    /\ state = None

CanCall(p) ==
    task[p].pc \in {"idle", "done"} /\ calls < MaxCalls

\* --------------------------------------------------------------- actions
\* Lines 544-550: a task calls authenticate().
authenticate(p) ==
    /\ CanCall(p)
    /\ LET r == Fresh("authenticate")
           new == IF _authed THEN [r EXCEPT !.pc = "done", !.ok = TRUE]
                  ELSE LoginEnter(r, LockFree(_login_lock, LoginWaiting))
       IN  Commit(p, new, token, _authed, None)

\* Lines 552-561: a task calls login() directly.
login(p) ==
    /\ CanCall(p)
    /\ Commit(p, LoginEnter(Fresh("login"),
                            LockFree(_login_lock, LoginWaiting)),
              token, _authed, None)

\* Lines 612-630: a task calls _request() (through get() or post()).
_request(p) ==
    /\ CanCall(p)
    /\ Commit(p, RequestEnter(Fresh("_request"), token,
                              LockFree(_login_lock, LoginWaiting)),
              token, _authed, None)

\* Lines 653-664: a task calls count_dynamic_entities().
count_dynamic_entities(p) ==
    /\ CanCall(p)
    /\ LET r == Fresh("count_dynamic_entities")
           new ==
             IF CacheHit(_dynamic_entity_counts)
             THEN [r EXCEPT !.pc = "done", !.ret = _dynamic_entity_counts]
             ELSE IF LockFree(_dynamic_entity_counts_lock, CountsWaiting)
             THEN RequestEnter([r EXCEPT !.step = 1], token,
                               LockFree(_login_lock, LoginWaiting))
             ELSE [r EXCEPT !.pc = "probe_wait", !.waited = TRUE]
       IN  Commit(p, new, token, _authed, None)

\* Lines 657-664: a queued caller gets the probe lock and checks again.
CountsLockAcquired(p) ==
    /\ task[p].pc = "probe_wait"
    /\ _dynamic_entity_counts_lock = 0
    /\ LET r == task[p]
           new ==
             IF CacheHit(_dynamic_entity_counts)
             THEN [r EXCEPT !.pc = "done", !.ret = _dynamic_entity_counts]
             ELSE RequestEnter([r EXCEPT !.step = 1], token,
                               LockFree(_login_lock, LoginWaiting))
       IN  Commit(p, new, token, _authed, None)

\* Lines 554-561: a queued caller gets the login lock and posts verify/check.
LoginLockAcquiredShared(p) ==
    /\ task[p].pc = "login_wait"
    /\ _login_lock = 0
    /\ Commit(p, LoginReturn(task[p], token # "", token, FALSE), token,
              AuthedAfter(task[p], token # "", _authed), EmptyMap)
LoginLockAcquired(p) ==
    /\ task[p].pc = "login_wait"
    /\ _login_lock = 0
    /\ Commit(p, [task[p] EXCEPT !.pc = "login_pk"], token, _authed, None)

\* Lines 561-589: the verify/check answer arrives; with a loadable key the
\* password is encrypted and verify/login posted, otherwise login() returns
\* False (lines 566, 608-610).
PublicKeyResponse(p) ==
    /\ task[p].pc = "login_pk"
    /\ \E o \in PkOutcomes :
         LET r == task[p]
         IN  IF o = "ok"
             THEN Commit(p, [r EXCEPT !.pc = "login_post"], token, _authed,
                         None)
             ELSE Commit(p,
                         LoginReturn(Answered([r EXCEPT !.exc = @ \/ o = "transport"],
                                              [pk |-> o]),
                                     FALSE, token, ~LoginWaiting),
                         token, AuthedAfter(r, FALSE, _authed), EmptyMap)

\* Lines 589-610: the verify/login answer arrives and login() returns; its
\* caller runs on (lines 549-550, 630, 634-638).
LoginResponse(p) ==
    /\ task[p].pc = "login_post"
    /\ \E o \in LoginOutcomes :
         LET r == task[p]
             tok == LoginToken(o, token)
         IN  Commit(p,
                    LoginReturn(Answered([r EXCEPT !.exc = @ \/ Raised(o)], o),
                                LoginOk(o), tok, ~LoginWaiting),
                    tok, AuthedAfter(r, LoginOk(o), _authed),
                    IF LoginOk(o) THEN None ELSE EmptyMap)

\* Lines 620-641: the answer of a data request arrives.
DoResponse(p) ==
    /\ task[p].pc = "do"
    /\ \E o \in DoOutcomes(task[p]) :
         LET r == task[p]
             free == LockFree(_login_lock, LoginWaiting)
             r1 == IF r.phase = "first" THEN [r EXCEPT !.first = o.code]
                   ELSE r
             tok == TokenAfterDo(o, token)
         IN  IF Raised(o)
             THEN Commit(p, AfterDoException(r, tok, free), tok, _authed,
                         EmptyMap)
             ELSE IF NeedsRelogin(r, o)
             THEN Commit(p, LoginEnter([r1 EXCEPT !.phase = "relogin"], free),
                         tok, _authed, None)
             ELSE Commit(p, RequestReturn(r1, o, tok, free), tok, _authed, o)

\* Tasks that authenticate, log in and issue requests on one client.
Next ==
    \E p \in Tasks :
        \/ authenticate(p)
        \/ login(p)
        \/ _request(p)
        \/ LoginLockAcquired(p)
        \/ PublicKeyResponse(p)
        \/ LoginResponse(p)
        \/ DoResponse(p)

Spec == Init /\ [][Next]_vars

\* Tasks that call the capability probe on one client.  The probe lock lets
\* one task at a time issue the gets, so no task queues for the login lock.
NextProbe ==
    \E p \in Tasks :
        \/ count_dynamic_entities(p)
        \/ CountsLockAcquired(p)
        \/ PublicKeyResponse(p)
        \/ LoginResponse(p)
        \/ DoResponse(p)

SpecProbe == Init /\ [][NextProbe]_vars

TypeOK ==
    /\ token \in {"", "seed", "tok"}
    /\ _authed \in BOOLEAN
    /\ _login_lock \in 0..NumTasks
    /\ _dynamic_entity_counts_lock \in 0..NumTasks
    /\ \A p \in Tasks :
         /\ task[p].op \in Ops \cup {"none"}
         /\ task[p].pc \in {"idle", "login_wait", "login_pk", "login_post",
                            "do", "probe_wait", "done"}
         /\ task[p].step \in 0..4

\* ------------------------------------------------------ JSON-like values
\* Python values as they come out of a JSON body: null is None; a number, a
\* string, a mapping and a list are tagged.  A string is the sequence of
\* its atoms: every character the code looks at ("." "[" "]" ":" "_", the
\* digits) is an atom of its own, any other run of characters is one atom.
Num(n) == [num |-> n]
Str(s) == [str |-> s]
Map(f) == [map |-> f]
List(s) == [list |-> s]
IsNum(v) == "num" \in DOMAIN v
IsStr(v) == "str" \in DOMAIN v
IsMap(v) == "map" \in DOMAIN v
IsList(v) == "list" \in DOMAIN v

\* An exception raised by an expression.
Exception == [exc |-> TRUE]

\* ---------------------------------------------------- Python string helpers
HasAtom(s, c) == \E i \in DOMAIN s : s[i] = c

\* str.split(sep): the pieces between the occurrences of sep.
RECURSIVE Split(_, _)
Split(s, sep) ==
    IF ~HasAtom(s, sep) THEN <<s>>
    ELSE LET i == CHOOSE i \in DOMAIN s :
                      s[i] = sep /\ \A j \in 1..(i - 1) : s[j] # sep
         IN  <<SubSeq(s, 1, i - 1)>> \o Split(SubSeq(s, i + 1, Len(s)), sep)

Digits == <<"0", "1", "2", "3", "4", "5", "6", "7", "8", "9">>
IsDigit(c) == \E i \in DOMAIN Digits : Digits[i] = c
DigitVal(c) == (CHOOSE i \in DOMAIN Digits : Digits[i] = c) - 1

RECURSIVE DigitsValue(_)
DigitsValue(s) ==
    IF s = <<>> THEN 0
    ELSE 10 * DigitsValue(SubSeq(s, 1, Len(s) - 1)) + DigitVal(s[Len(s)])

\* int(s) of a string: an optional sign and decimal digits, else ValueError.
Unsigned(s) == IF s # <<>> /\ s[1] \in {"-", "+"} THEN Tail(s) ELSE s
IntParses(s) ==
    Unsigned(s) # <<>> /\ \A i \in DOMAIN Unsigned(s) : IsDigit(Unsigned(s)[i])
IntOf(s) ==
    IF s[1] = "-" THEN 0 - DigitsValue(Unsigned(s))
    ELSE DigitsValue(Unsigned(s))

\* str(n) of an integer.
RECURSIVE FormatNat(_)
FormatNat(n) ==
    IF n < 10 THEN <<Digits[n + 1]>>
    ELSE FormatNat(n \div 10) \o <<Digits[(n % 10) + 1]>>
FormatInt(n) == IF n < 0 THEN <<"-">> \o FormatNat(0 - n) ELSE FormatNat(n)

\* l[i] of a list: negative indexes count from the end, anything outside
\* -len..len-1 raises IndexError.
PyIndex(l, i) ==
    IF 0 <= i /\ i < Len(l) THEN l[i + 1]
    ELSE IF i < 0 /\ 0 - i <= Len(l) THEN l[Len(l) + i + 1]
    ELSE Exception

\* ------------------------------------------ utils.extract_value_from_path
\* Line 237: part[:-1].
StripBracketNot(part) == part
StripBracket(part) == SubSeq(part, 1, Len(part) - 1)

\* Lines 237-239: a part with an index.  The unpacking needs exactly two
\* pieces; int(index) is evaluated only when the looked-up value is a list.
StepIndexed(value, part) ==
    LET pieces == Split(StripBracket(part), "[")
    IN  IF Len(pieces) # 2 THEN Exception
        ELSE LET v == IF IsMap(value)
                      THEN Get(value.map, pieces[1], List(<<>>))
                      ELSE List(<<>>)
             IN  IF ~IsList(v) THEN None
                 ELSE IF ~IntParses(pieces[2]) THEN Exception
                 ELSE PyIndex(v.list, IntOf(pieces[2]))

\* Lines 236-241: one part of the path applied to the value reached so far.
StepPart(value, part) ==
    IF HasAtom(part, "[") /\ HasAtom(part, "]") THEN StepIndexed(value, part)
    ELSE IF IsMap(value) THEN Get(value.map, part, None) ELSE None

\* Lines 235-241: the loop over the parts; an exception ends it.
RECURSIVE Walk(_, _)
Walk(value, parts) ==
    IF parts = <<>> THEN value
    ELSE LET v == StepPart(value, Head(parts))
         IN  IF Raised(v) THEN v ELSE Walk(v, Tail(parts))

\* Lines 230-244: any exception is turned into None.
extract_value_from_path(data, path) ==
    LET v == Walk(data, Split(path, "."))
    IN  IF Raised(v) THEN None ELSE v

StartsWith(s, pre) == Len(pre) <= Len(s) /\ SubSeq(s, 1, Len(pre)) = pre
EndsWith(s, suf) ==
    Len(suf) <= Len(s) /\ SubSeq(s, Len(s) - Len(suf) + 1, Len(s)) = suf

\* str.split(sep, n): at most n splits.
RECURSIVE SplitMax(_, _, _)
SplitMax(s, sep, n) ==
    IF n = 0 \/ ~HasAtom(s, sep) THEN <<s>>
    ELSE LET i == CHOOSE i \in DOMAIN s :
                      s[i] = sep /\ \A j \in 1..(i - 1) : s[j] # sep
         IN  <<SubSeq(s, 1, i - 1)>>
             \o SplitMax(SubSeq(s, i + 1, Len(s)), sep, n - 1)

\* ------------------------------------------- utils.scale_bytes_per_second
\* Line 219: Decimal(str(raw).replace(",", ".")) of a JSON integer or of a
\* string of digits; anything else raises and the function returns None.
DecimalParses(raw) == IsNum(raw) \/ (IsStr(raw) /\ IntParses(raw.str))
DecimalOf(raw) == IF IsNum(raw) THEN raw.num ELSE IntOf(raw.str)

\* Line 220.
RateUnits == <<"B/s", "kB/s", "MB/s", "GB/s", "TB/s">>

\* Lines 222-224: divide by 1024 while the value is at least 1024 and a
\* larger unit is left.  The value is n / den.
RECURSIVE ScaleLoop(_, _, _)
ScaleLoop(n, den, unit_index) ==
    IF n >= 0 /\ n \div den >= 1024 /\ unit_index < Len(RateUnits) - 1
    THEN ScaleLoop(n, den * 1024, unit_index + 1)
    ELSE [den |-> den, unit_index |-> unit_index]

\* Line 225: n / den quantized to an integer with ROUND_HALF_UP, ties away
\* from zero (RoundHalfUp); RoundDown drops the fraction instead.
RoundDown(n, den) ==
    IF n >= 0 THEN n \div den ELSE 0 - ((0 - n) \div den)
RoundHalfUp(n, den) ==
    IF n >= 0 THEN (2 * n + den) \div (2 * den)
    ELSE 0 - ((2 * (0 - n) + den) \div (2 * den))

\* Lines 211-227.
scale_bytes_per_second(raw) ==
    IF raw = None \/ ~DecimalParses(raw) THEN None
    ELSE LET n == DecimalOf(raw)
             r == ScaleLoop(n, 1, 0)
         IN  Str(FormatInt(RoundHalfUp(n, r.den))
                 \o <<" ", RateUnits[r.unit_index + 1]>>)

\* --------------------------------------- utils.get_entity_data_from_api
\* Line 265: the sum of the RAM*_size values collected so far in this pass;
\* adding a value that is no number raises TypeError.
RamSizeKeys(data) ==
    {k \in DOMAIN data : StartsWith(k, <<"RAM">>) /\ EndsWith(k, <<"_size">>)}
RECURSIVE SumNums(_, _)
SumNums(data, keys) ==
    IF keys = {} THEN 0
    ELSE LET k == CHOOSE k \in keys : TRUE
         IN  data[k].num + SumNums(data, keys \ {k})
RamTotal(data) ==
    IF \E k \in RamSizeKeys(data) : ~IsNum(data[k]) THEN Exception
    ELSE Num(SumNums(data, RamSizeKeys(data)))

\* Lines 260-271: the value of one entity, or the exception it raises.
EntityValue(entity, response, data) ==
    LET path == entity.path
    IN  IF ~StartsWith(path, <<"calculated", ":">>)
        THEN extract_value_from_path(response, path)
        ELSE IF StartsWith(path, <<"calculated", ":", "ram_total_size">>)
        THEN RamTotal(data)
        ELSE IF StartsWith(path,
                           <<"calculated", ":", "scale_bytes_per_second", ":">>)
        THEN scale_bytes_per_second(
                 extract_value_from_path(response, SplitMax(path, ":", 2)[3]))
        ELSE None

\* Lines 258-275: the entities of one endpoint, in order; an entity whose
\* extraction raises gets None.
RECURSIVE ExtractAll(_, _, _)
ExtractAll(entities, response, data) ==
    IF entities = <<>> THEN data
    ELSE LET v == EntityValue(Head(entities), response, data)
         IN  ExtractAll(Tail(entities), response,
                        Put(data, Head(entities).key,
                            IF Raised(v) THEN None ELSE v))

\* Lines 251-256: api.get raised, every entity of the endpoint gets None.
RECURSIVE FailAll(_, _)
FailAll(entities, data) ==
    IF entities = <<>> THEN data
    ELSE FailAll(Tail(entities), Put(data, Head(entities).key, None))

\* Lines 250-275: one endpoint of the pass, given what api.get did.
FetchEndpoint(entities, o, data) ==
    IF Raised(o) THEN FailAll(entities, data)
    ELSE ExtractAll(entities, o, data)

\* __init__.py lines 88-90 and 100-102: entities grouped by endpoint, the
\* endpoints in the order of their first entity.
RECURSIVE GroupInto(_, _)
GroupInto(entities, groups) ==
    IF entities = <<>> THEN groups
    ELSE LET e == Head(entities)
             known == {i \in DOMAIN groups : groups[i].endpoint = e.endpoint}
         IN  IF known = {}
             THEN GroupInto(Tail(entities),
                            Append(groups, [endpoint |-> e.endpoint,
                                            entities |-> <<e>>]))
             ELSE LET i == CHOOSE i \in known : TRUE
                  IN  GroupInto(Tail(entities),
                                [groups EXCEPT ![i].entities = Append(@, e)])
GroupPerEntity(entities) ==
    [i \in DOMAIN entities |->
        [endpoint |-> entities[i].endpoint, entities |-> <<entities[i]>>]]
GroupByEndpoint(entities) == GroupInto(entities, <<>>)

\* Entities of two endpoints, with the keys and paths of entities.py lines
\* 343-368 and api.py lines 768-805.
SysinfoEndpoint == "/ugreen/v1/sysinfo/machine/common"
StatEndpoint == "/ugreen/v1/taskmgr/stat/get_all"

SendRatePath ==
    <<"data", ".", "net", ".", "series", "[", "0", "]", ".", "send_rate">>
Entity(k, e, p) == [key |-> k, endpoint |-> e, path |-> p]
RamSize ==
    Entity(<<"RAM", "_size">>, SysinfoEndpoint,
           <<"data", ".", "hardware", ".", "mem", "[", "0", "]", ".", "size">>)
RamTotalSize ==
    Entity(<<"ram_total", "_size">>, SysinfoEndpoint,
           <<"calculated", ":", "ram_total_size">>)
LanUploadRaw ==
    Entity(<<"overall_lan_upload_raw">>, StatEndpoint, SendRatePath)
LanUpload ==
    Entity(<<"overall_lan_upload">>, StatEndpoint,
           <<"calculated", ":", "scale_bytes_per_second", ":">> \o SendRatePath)
\* Descriptors with other names after "calculated:", which no entity table
\* holds: an unknown name, and names that begin with one of the two handled
\* names.
UnknownCalculated ==
    Entity(<<"uptime_days">>, StatEndpoint,
           <<"calculated", ":", "uptime_days">>)
RamTotalLike ==
    Entity(<<"ram_total", "_size", "_gb">>, SysinfoEndpoint,
           <<"calculated", ":", "ram_total_size", "_gb">>)
ScaleLike ==
    Entity(<<"overall_lan_upload", "_bits">>, StatEndpoint,
           <<"calculated", ":", "scale_bytes_per_second", "_bits", ":">>
               \o SendRatePath)
Catalogue ==
    {RamSize, RamTotalSize, LanUploadRaw, LanUpload,
     UnknownCalculated, RamTotalLike, ScaleLike}

MaxEntities == 3
EntityLists ==
    {s \in SeqsUpTo(Catalogue, MaxEntities) :
        \A i, j \in DOMAIN s : i # j => s[i] # s[j]}

\* [one(0), ..., one(n-1)] flattened: the loop
\* "for i in range(n): entities.extend([...])".
RECURSIVE Flatten(_)
Flatten(ss) == IF ss = <<>> THEN <<>> ELSE Head(ss) \o Flatten(Tail(ss))

\* api.py lines 735-805: the descriptors the RAM builder returns for
\* n_modules modules, the four of each module in turn and then the total.
MemPath(i, field) ==
    <<"data", ".", "hardware", ".", "mem", "[">> \o FormatInt(i)
        \o <<"]", ".", field>>
\* The RAM total declared first, before the modules it sums.
MemDescriptorsTotalFirst(n_modules) ==
    LET ram(i) == <<"RAM">> \o
                  (IF n_modules = 1 THEN <<>> ELSE FormatInt(i + 1))
        one(i) ==
            <<Entity(ram(i) \o <<"_size">>, SysinfoEndpoint,
                     MemPath(i, "size"))>>
    IN  <<RamTotalSize>> \o Flatten([i \in 1..n_modules |-> one(i - 1)])
MemDescriptors(n_modules) ==
    LET ram(i) == <<"RAM">> \o
                  (IF n_modules = 1 THEN <<>> ELSE FormatInt(i + 1))
        one(i) ==
            <<Entity(ram(i) \o <<"_model">>, SysinfoEndpoint,
                     MemPath(i, "model")),
              Entity(ram(i) \o <<"_manufacturer">>, SysinfoEndpoint,
                     MemPath(i, "manufacturer")),
              Entity(ram(i) \o <<"_size">>, SysinfoEndpoint,
                     MemPath(i, "size")),
              Entity(ram(i) \o <<"_speed">>, SysinfoEndpoint,
                     MemPath(i, "mhz"))>>
    IN  Flatten([i \in 1..n_modules |-> one(i - 1)]) \o <<RamTotalSize>>

\* entities.py lines 44-236: static config entities of two endpoints.
SystemStatusEndpoint ==
    "/ugreen/v1/desktop/components/data?id=desktop.component.SystemStatus"
StaticConfig ==
    <<Entity(<<"type">>, SystemStatusEndpoint, <<"data", ".", "type">>),
      Entity(<<"owner">>, SysinfoEndpoint,
             <<"data", ".", "common", ".", "nas_owner">>),
      Entity(<<"device_name">>, SystemStatusEndpoint,
             <<"data", ".", "dev_name">>)>>

\* __init__.py lines 82-86: the config entities of an entry, the static
\* ones followed by what discovery adds.  The discovery method is not part
\* of the source; it is taken to return the RAM builder's descriptors for
\* the probed module count.
MaxModules == 2
ConfigList(n_modules) == StaticConfig \o MemDescriptors(n_modules)
ConfigLists == {ConfigList(n) : n \in 0..MaxModules}

\* Bodies the two endpoints may answer with.
Obj1(k, v) == Map([x \in {<<k>>} |-> v])
SysinfoAnswer(mem) == Obj1("data", Obj1("hardware", Obj1("mem", List(mem))))
StatAnswer(rate) ==
    Obj1("data", Obj1("net", Obj1("series", List(<<Obj1("send_rate", rate)>>))))
FetchEndpoints == {SysinfoEndpoint, StatEndpoint, SystemStatusEndpoint}
FetchBodies(e) ==
    IF e = SysinfoEndpoint
    THEN {SysinfoAnswer(<<>>), SysinfoAnswer(<<Obj1("size", Num(8))>>),
          SysinfoAnswer(<<Obj1("size", Num(8)), Obj1("size", Num(16))>>),
          SysinfoAnswer(<<Obj1("size", Num(8)), Obj1("size", None)>>)}
    ELSE IF e = StatEndpoint
    THEN {StatAnswer(Num(0)), StatAnswer(Num(1536)), StatAnswer(None)}
    ELSE {Obj1("data", Obj1("type", Num(1)))}

\* What api.get returns: a body, or {} after a failure (the client's
\* _request() catches every exception, api.py lines 639-641).
FailedGet == Map(EmptyMap)
GetOutcomes(e) == {FailedGet} \cup FetchBodies(e)

\* A pass that has not started.
FetchStart(entities) ==
    [pc |-> "idle", groups |-> GroupByEndpoint(entities), pos |-> 0,
     data |-> EmptyMap, gets |-> [e \in FetchEndpoints |-> 0],
     answers |-> EmptyMap]

\* Line 250: the pass awaits api.get for its next endpoint, or returns.
FetchAdvance(f) ==
    IF f.pos < Len(f.groups)
    THEN [f EXCEPT !.pc = "get", !.pos = @ + 1,
                   !.gets[f.groups[f.pos + 1].endpoint] = @ + 1]
    ELSE [f EXCEPT !.pc = "done"]

InitFetch ==
    /\ ClientInit /\ token = ""
    /\ call = None
    /\ setup = None
    /\ state = None
    /\ fetch \in {FetchStart(s) : s \in EntityLists \cup ConfigLists}

\* Lines 247-250: a refresh calls get_entity_data_from_api().
get_entity_data_from_api ==
    /\ fetch.pc = "idle"
    /\ fetch' = FetchAdvance(fetch)
    /\ UNCHANGED <<clientVars, call, setup, state>>

\* Lines 250-276: api.get returns and the entities of the endpoint get
\* their values; the pass goes on to the next endpoint or returns.
GetReturns ==
    /\ fetch.pc = "get"
    /\ LET g == fetch.groups[fetch.pos]
       IN  \E o \in GetOutcomes(g.endpoint) :
             fetch' = FetchAdvance(
                 [fetch EXCEPT !.data = FetchEndpoint(g.entities, o, @),
                               !.answers = Put(@, g.endpoint, o)])
    /\ UNCHANGED <<clientVars, call, setup, state>>

NextFetch == get_entity_data_from_api \/ GetReturns

SpecFetch == InitFetch /\ [][NextFetch]_vars

\* ------------------------------- utils.apply_templates, utils.make_entities
\* A template string is a sequence of literal atoms and placeholder atoms
\* such as "{prefix_key}"; str.format replaces each placeholder.
RECURSIVE Format(_, _)
Format(tpl, fmt) ==
    IF tpl = <<>> THEN <<>>
    ELSE (IF Head(tpl) \in DOMAIN fmt THEN fmt[Head(tpl)] ELSE <<Head(tpl)>>)
         \o Format(Tail(tpl), fmt)

\* Lines 279-298: one entity per template, in the order of the templates.
apply_templates(templates, fmt) ==
    [t \in DOMAIN templates |->
        [key |-> Format(templates[t].key, fmt),
         name |-> Format(templates[t].name, fmt),
         path |-> Format(templates[t].path, fmt)]]

\* Python truthiness and len().
Falsy(v) ==
    v \in {None, Num(0), Str(<<>>), List(<<>>), Map(EmptyMap)}
PyLen(v) ==
    IF IsList(v) THEN [n |-> Len(v.list)]
    ELSE IF IsMap(v) THEN [n |-> Cardinality(DOMAIN v.map)]
    ELSE IF IsStr(v) THEN [n |-> Len(v.str)]
    ELSE Exception

\* Lines 315-322: the number of instances, from the list at list_path of
\* the fetched body or from count; a missing fetch function gives none.
InstanceCount(c) ==
    IF c.list_path # None
    THEN IF c.fetch = None THEN [n |-> 0]
         ELSE LET data == IF Falsy(c.fetch.returns) THEN Map(EmptyMap)
                          ELSE c.fetch.returns
                  items == extract_value_from_path(data, c.list_path)
              IN  IF Falsy(items) THEN [n |-> 0] ELSE PyLen(items)
    ELSE IF c.count = None \/ c.count.num <= 0 THEN [n |-> 0]
         ELSE [n |-> c.count.num]

\* Line 327: the single instance of a compact build gets no number.
SingleNever(c, n) == FALSE
Single(c, n) == n = 1 /\ c.single_compact

\* Lines 330-343: the placeholders of instance i of n.
Placeholders(c, n, i) ==
    LET idx_num == i + c.index_start
        idx_txt == IF Single(c, n) THEN <<>> ELSE FormatInt(idx_num)
    IN  [p \in {"{i}", "{series_index}", "{prefix_key}", "{prefix_name}"} |->
            CASE p = "{i}" -> FormatInt(i)
              [] p = "{series_index}" -> FormatInt(idx_num)
              [] p = "{prefix_key}" -> c.prefix_key_base \o idx_txt
              [] OTHER -> c.prefix_name_base
                          \o (IF Single(c, n) THEN <<>>
                              ELSE <<" ">> \o FormatInt(idx_num))]

\* Lines 329-343: the loop over the instances i..n-1.
RECURSIVE Instances(_, _, _)
Instances(c, n, i) ==
    IF i >= n THEN <<>>
    ELSE apply_templates(c.templates, Placeholders(c, n, i))
         \o Instances(c, n, i + 1)

\* Lines 301-345.  Nothing is caught: a len() that raises leaves the call.
make_entities(c) ==
    LET r == InstanceCount(c)
    IN  IF Raised(r) THEN Exception
        ELSE [ret |-> Instances(c, r.n, 0)]

\* ------------------------------------------- calls of the data-layer functions
\* make_entities over RAM-style templates (entities.py lines 718-767): the
\* key is "{prefix_key}" and a literal suffix.
MaxCount == 10
MaxTemplates == 2

MemListPath == <<"data", ".", "hardware", ".", "mem">>
RamTemplate(suffix) ==
    [key |-> <<"{prefix_key}">> \o suffix,
     name |-> <<"{prefix_name}", " Size">>,
     path |-> MemListPath \o <<"[", "{i}", "]", ".", "size">>]
\* Key suffixes of the templates passed in.  make_entities() takes any
\* templates; the templates of entities.py have no suffix that begins with
\* a digit.
KeySuffixes == {<<"_model">>, <<"_size">>, <<"0", "_size">>}
TemplateLists ==
    {s \in SeqsUpTo({RamTemplate(x) : x \in KeySuffixes}, MaxTemplates) :
        s # <<>> /\ \A i, j \in DOMAIN s : i # j => s[i] # s[j]}

\* What fetch(endpoint) may return to make_entities.
MemBodies ==
    {None, Map(EmptyMap), SysinfoAnswer(<<>>),
     SysinfoAnswer(<<Obj1("size", Num(8))>>),
     SysinfoAnswer(<<Obj1("size", Num(8)), Obj1("size", Num(8))>>),
     Obj1("data", Obj1("hardware", Obj1("mem", Num(5))))}

MakeCalls ==
    [fn : {"make_entities"}, templates : TemplateLists,
     prefix_key_base : {<<"RAM">>}, prefix_name_base : {<<"RAM Module">>},
     list_path : {None}, fetch : {None},
     count : {None} \cup {Num(n) : n \in (0 - 1)..MaxCount},
     index_start : 0..1, single_compact : BOOLEAN,
     done : {FALSE}, out : {None}]
    \cup
    [fn : {"make_entities"}, templates : TemplateLists,
     prefix_key_base : {<<"RAM">>}, prefix_name_base : {<<"RAM Module">>},
     list_path : {MemListPath},
     fetch : {None} \cup {[returns |-> b] : b \in MemBodies},
     count : {None}, index_start : 0..1, single_compact : BOOLEAN,
     done : {FALSE}, out : {None}]

\* extract_value_from_path over small trees and well-formed paths.  A path
\* shape is a sequence of segments, each a key and at most one index; the
\* path is its rendering with "." between the segments.
MaxListLen == 2
MaxSegments == 2

KeyNames == {<<"a">>, <<"b">>}
Leaves == {None, Num(7), Str(<<"x">>)}
ListItems == Leaves \cup {Map([k \in {<<"a">>} |-> Num(7)])}
InnerValues ==
    Leaves
    \cup {List(s) : s \in SeqsUpTo(ListItems, MaxListLen)}
    \cup {Map(f) : f \in UNION {[K -> Leaves] : K \in SUBSET KeyNames}}
Trees ==
    {Map(f) : f \in UNION {[K -> InnerValues] : K \in SUBSET {<<"a">>}}}
    \cup {Map(f) : f \in [KeyNames -> Leaves]}
    \cup {Map([k \in KeyNames |-> IF k = <<"a">> THEN v ELSE Num(7)]) :
             v \in InnerValues}

Segments ==
    [name : KeyNames] \cup [name : KeyNames, index : 0..MaxListLen]
PathShapes == SeqsUpTo(Segments, MaxSegments) \ {<<>>}

RenderSegment(seg) ==
    seg.name \o (IF "index" \in DOMAIN seg
                 THEN <<"[">> \o FormatInt(seg.index) \o <<"]">>
                 ELSE <<>>)
RECURSIVE RenderPath(_)
RenderPath(shape) ==
    IF Len(shape) = 1 THEN RenderSegment(shape[1])
    ELSE RenderSegment(shape[1]) \o <<".">> \o RenderPath(Tail(shape))

ExtractCalls ==
    {[fn |-> "extract_value_from_path", data |-> t, shape |-> s,
      path |-> RenderPath(s), done |-> FALSE, out |-> None] :
        t \in Trees, s \in PathShapes}

\* scale_bytes_per_second over null, byte counts and strings.
MaxRaw == 2048
\* Rates just below 1024 * 1024, where the unit changes from kB/s to MB/s.
MaxBelow == 513
ScaleCalls ==
    [fn : {"scale_bytes_per_second"},
     raw : {None, Str(<<"1", "5", "3", "6">>), Str(<<"n/a">>)}
           \cup {Num(n) : n \in 0..MaxRaw}
           \cup {Num(1024 * 1024 - k) : k \in 0..MaxBelow},
     done : {FALSE}, out : {None}]

\* ------------------------------------------------ utils.format_sensor_value
\* "x in s" for strings: x occurs in s as a run of consecutive atoms.
Contains(s, x) ==
    \E i \in 1..(Len(s) - Len(x) + 1) : SubSeq(s, i, i + Len(x) - 1) = x

\* str.strip(): blanks at both ends removed.
RECURSIVE Strip(_)
Strip(s) ==
    IF s = <<>> THEN s
    ELSE IF Head(s) = " " THEN Strip(Tail(s))
    ELSE IF s[Len(s)] = " " THEN Strip(SubSeq(s, 1, Len(s) - 1))
    ELSE s

\* str(raw) as an f-string renders it.
PyStr(raw) ==
    IF raw = None THEN <<"None">>
    ELSE IF IsNum(raw) THEN FormatInt(raw.num)
    ELSE raw.str

\* A Decimal with a fixed number of places: dec / 10^places.
Dec(m, p) == [dec |-> m, places |-> p]
RECURSIVE Pow(_, _)
Pow(b, e) == IF e = 0 THEN 1 ELSE b * Pow(b, e - 1)

\* Lines 11-38: format_dynamic_size.  The value is n / den.
SizeUnits == <<"B", "kB", "MB", "GB", "TB", "PB">>
UnitExponent(u) == (CHOOSE i \in DOMAIN SizeUnits : SizeUnits[i] = u) - 1
Quantize(n, den, places) == Dec(RoundHalfUp(n * Pow(10, places), den), places)
RECURSIVE SizeLoop(_, _, _, _)
SizeLoop(n, den, rounds, places) ==
    IF rounds = 0 \/ n < 0 \/ n \div den < 1024
    THEN Quantize(n, den, places)
    ELSE SizeLoop(n, den * 1024, rounds - 1, places)
format_dynamic_size(raw, input_unit, decimal_places) ==
    IF raw = None THEN None
    ELSE IF \A i \in DOMAIN SizeUnits : SizeUnits[i] # input_unit THEN None
    ELSE IF ~DecimalParses(raw) THEN None
    ELSE SizeLoop(DecimalOf(raw) * Pow(1024, UnitExponent(input_unit)), 1,
                  Len(SizeUnits), decimal_places)

\* Lines 97-105: format_timestamp.  The rendering of the local date and
\* time of second n is kept as the value [timestamp |-> n].
format_timestamp(raw) ==
    IF raw = None THEN Str(<<"N/A">>)
    ELSE IF ~DecimalParses(raw) THEN Str(<<"Invalid timestamp">>)
    ELSE [timestamp |-> DecimalOf(raw)]

\* Lines 107-112: format_status_code.
format_status_code(raw, status_map) ==
    IF raw = None \/ ~DecimalParses(raw)
    THEN Str(<<"Invalid value: ">> \o PyStr(raw))
    ELSE IF DecimalOf(raw) \in DOMAIN status_map
    THEN Str(<<status_map[DecimalOf(raw)]>>)
    ELSE Str(<<"Unknown status: ">> \o PyStr(raw))

\* Lines 88-95: format_percentage, one decimal place.
format_percentage(raw) ==
    IF raw = None \/ ~DecimalParses(raw) THEN Dec(0, 0)
    ELSE Dec(DecimalOf(raw) * 10, 1)

\* A JSON number with a fraction, real / 10^places, as raw value.
Real(m, p) == [real |-> m, places |-> p]
IsReal(v) == "real" \in DOMAIN v
\* round(x) of Python for x = n / den >= 0: to the nearest integer, a tie
\* to the even one.
RoundHalfEven(n, den) ==
    LET q == n \div den
        r == 2 * (n % den)
    IN  IF r > den \/ (r = den /\ q % 2 = 1) THEN q + 1 ELSE q

\* Lines 84-91: format_temperature, int(round(float(raw))).
format_temperature(raw) ==
    IF IsReal(raw) THEN Num(RoundHalfEven(raw.real, Pow(10, raw.places)))
    ELSE IF raw = None \/ ~DecimalParses(raw) THEN Dec(0, 0)
    ELSE Num(DecimalOf(raw))

\* Lines 114-120: format_frequency_mhz.
format_frequency_mhz(raw) ==
    IF IsStr(raw) /\ HasAtom(raw.str, "MHz")
    THEN LET cleaned == Strip(SelectSeq(raw.str, LAMBDA a : a # "MHz"))
         IN  IF cleaned # <<>> /\ \A i \in DOMAIN cleaned : IsDigit(cleaned[i])
             THEN Num(DigitsValue(cleaned)) ELSE raw
    ELSE raw

\* Lines 127-143: convert_string_to_number, for strings without a decimal
\* point or comma; a value that is no string is returned as it is.
convert_string_to_number(value, decimal_places) ==
    IF ~IsStr(value) THEN value
    ELSE LET v == Strip(value.str)
         IN  IF v = <<>> THEN Str(v)
             ELSE IF IntParses(v) THEN Num(IntOf(v))
             ELSE Str(v)

\* The status-code tables of lines 152-189.
ServerStatusTable == (2 :> "Normal")
DiskStatusTable == (1 :> "Normal")
FanOverallTable == (0 :> "Normal")
FanStatusTable == (0 :> "ERROR!") @@ (1 :> "Normal")
DiskTypeTable == (0 :> "HDD") @@ (1 :> "SSD") @@ (2 :> "M.2")
VolumeHealthTable == (0 :> "Normal")
UsbDeviceTypeTable == (0 :> "Generic USB Device")

UnitIn(d, units) == d.unit # None /\ d.unit.str \in units
KeyHas(d, x) == Contains(d.key, x)

\* Lines 148-203: the branch of format_sensor_value that returns for the
\* description d, the tests in the order of the code.
RuleFanStatusFirst(d) ==
    IF UnitIn(d, {<<"B">>, <<"kB">>, <<"MB">>, <<"GB">>, <<"TB">>})
    THEN "size"
    ELSE IF Contains(d.name, <<"Timestamp">>) THEN "timestamp"
    ELSE IF KeyHas(d, <<"server", "_", "status">>) THEN "server_status"
    ELSE IF KeyHas(d, <<"disk">>) /\ KeyHas(d, <<"status">>)
    THEN "disk_status"
    ELSE IF KeyHas(d, <<"fan">>) /\ KeyHas(d, <<"status">>) THEN "fan_status"
    ELSE IF KeyHas(d, <<"fan">>) /\ KeyHas(d, <<"overall">>)
    THEN "fan_overall"
    ELSE IF KeyHas(d, <<"disk">>) /\ ~KeyHas(d, <<"interface">>)
            /\ KeyHas(d, <<"type">>) THEN "disk_type"
    ELSE IF KeyHas(d, <<"volume">>) /\ KeyHas(d, <<"health">>)
    THEN "volume_health"
    ELSE IF KeyHas(d, <<"USB_device", "_", "type">>) THEN "usb_device_type"
    ELSE IF UnitIn(d, {<<"%">>}) THEN "percentage"
    ELSE IF UnitIn(d, {<<"Â°C">>}) THEN "temperature"
    ELSE IF UnitIn(d, {<<"kB/s">>, <<"MB/s">>, <<"GB/s">>}) THEN "rate"
    ELSE IF UnitIn(d, {<<"MHz">>}) THEN "mhz"
    ELSE "number"
Rule(d) ==
    IF UnitIn(d, {<<"B">>, <<"kB">>, <<"MB">>, <<"GB">>, <<"TB">>})
    THEN "size"
    ELSE IF Contains(d.name, <<"Timestamp">>) THEN "timestamp"
    ELSE IF KeyHas(d, <<"server", "_", "status">>) THEN "server_status"
    ELSE IF KeyHas(d, <<"disk">>) /\ KeyHas(d, <<"status">>)
    THEN "disk_status"
    ELSE IF KeyHas(d, <<"fan">>) /\ KeyHas(d, <<"overall">>)
    THEN "fan_overall"
    ELSE IF KeyHas(d, <<"fan">>) /\ KeyHas(d, <<"status">>) THEN "fan_status"
    ELSE IF KeyHas(d, <<"disk">>) /\ ~KeyHas(d, <<"interface">>)
            /\ KeyHas(d, <<"type">>) THEN "disk_type"
    ELSE IF KeyHas(d, <<"volume">>) /\ KeyHas(d, <<"health">>)
    THEN "volume_health"
    ELSE IF KeyHas(d, <<"USB_device", "_", "type">>) THEN "usb_device_type"
    ELSE IF UnitIn(d, {<<"%">>}) THEN "percentage"
    ELSE IF UnitIn(d, {<<"Â°C">>}) THEN "temperature"
    ELSE IF UnitIn(d, {<<"kB/s">>, <<"MB/s">>, <<"GB/s">>}) THEN "rate"
    ELSE IF UnitIn(d, {<<"MHz">>}) THEN "mhz"
    ELSE "number"

\* Lines 145-208: what the chosen branch returns.  The formatters catch
\* their own exceptions, so the handler of lines 207-208 is not reached.
format_sensor_value(raw, d) ==
    LET rule == Rule(d)
    IN  CASE rule = "size" ->
               format_dynamic_size(raw, d.unit.str[1], d.decimal_places)
          [] rule = "timestamp" -> format_timestamp(raw)
          [] rule = "server_status" -> format_status_code(raw, ServerStatusTable)
          [] rule = "disk_status" -> format_status_code(raw, DiskStatusTable)
          [] rule = "fan_overall" -> format_status_code(raw, FanOverallTable)
          [] rule = "fan_status" -> format_status_code(raw, FanStatusTable)
          [] rule = "disk_type" -> format_status_code(raw, DiskTypeTable)
          [] rule = "volume_health" ->
               format_status_code(raw, VolumeHealthTable)
          [] rule = "usb_device_type" ->
               format_status_code(raw, UsbDeviceTypeTable)
          [] rule = "percentage" -> format_percentage(raw)
          [] rule = "temperature" -> format_temperature(raw)
          [] rule = "rate" ->
               format_dynamic_size(raw, d.unit.str[1], d.decimal_places)
          [] rule = "mhz" -> format_frequency_mhz(raw)
          [] OTHER -> convert_string_to_number(raw, d.decimal_places)

\* Descriptions whose key is made of up to MaxKeyWords of the words the
\* tests look for, joined by "_".
MaxKeyWords == 3
KeyWords ==
    {"server", "disk", "status", "fan", "overall", "interface", "type",
     "volume", "health", "USB_device"}
RECURSIVE JoinWords(_)
JoinWords(ws) ==
    IF Len(ws) = 1 THEN <<ws[1]>>
    ELSE <<ws[1], "_">> \o JoinWords(Tail(ws))
SensorKeys ==
    {JoinWords(ws) : ws \in
        {s \in SeqsUpTo(KeyWords, MaxKeyWords) :
            s # <<>> /\ \A i, j \in DOMAIN s : i # j => s[i] # s[j]}}
SensorUnits ==
    {None} \cup
    {Str(<<u>>) : u \in {"B", "kB", "%", "Â°C", "kB/s", "MHz", "RPM"}}
SensorNames == {<<"Fan Status">>, <<"Last Boot ", "Timestamp">>}
SensorRaws == {None, Num(0), Num(1), Num(1536), Str(<<"n/a">>)}

\* The temperature descriptors of the entity tables (entities.py 251-262,
\* api.py 1655-1667): the unit is UnitOfTemperature.CELSIUS of the host
\* framework, the string "°C"; the unit written in line 196 is another
\* string.  Their raw values may carry a fraction.
Celsius == "°C"
TemperatureRaws ==
    SensorRaws \cup {Num(45), Real(454, 1), Real(455, 1), Real(456, 1)}
FormatCalls ==
    [fn : {"format_sensor_value"}, raw : SensorRaws,
     description : [key : SensorKeys, name : SensorNames, unit : SensorUnits,
                    decimal_places : {2}],
     done : {FALSE}, out : {None}]
    \cup
    [fn : {"format_sensor_value"}, raw : TemperatureRaws,
     description : [key : {<<"cpu", "_", "temperature">>,
                           <<"disk", "1", "_", "temperature">>},
                    name : {<<"Temperature">>},
                    unit : {Str(<<Celsius>>), Str(<<"Â°C">>)},
                    decimal_places : {0, 1}],
     done : {FALSE}, out : {None}]

\* --------------------------------------------- count-driven entity builders
\* api.py get_dynamic_*: the descriptors a category builder returns, as the
\* list of their keys, from the counts mapping of get_dynamic_entity_counts()
\* (the probe's cache, or {} when there is none, line 717).

FanStatusOverall == <<"fan", "_", "status", "_", "overall">>
RamTotalKey == <<"ram_total", "_size">>

\* Lines 1459-1533.
get_dynamic_status_entities_fan(counts) ==
    LET n_dev == Get(counts, "num_device_fans", 0)
        ix(i) == IF n_dev = 1 THEN <<>> ELSE FormatInt(i + 1)
        dev(i) == << <<"device_fan">> \o ix(i) \o <<"_speed">>,
                     <<"device_fan">> \o ix(i) \o <<"_status">> >>
    IN  [ret |->
           (IF Get(counts, "has_cpu_fan", FALSE)
            THEN << <<"cpu_fan", "_speed">>, <<"cpu_fan", "_status">> >>
            ELSE <<>>)
           \o Flatten([i \in 1..n_dev |-> dev(i - 1)]) \o <<FanStatusOverall>>]

\* Line 1541: the index into data.net.series that the descriptors of NIC i
\* read ("0 = overview, daher +1"), and lines 1539-1541: the indices read
\* by the descriptor groups built from the cached count.
LanSeriesIndex(i) == i + 1
LanSeriesIndices(counts) ==
    [i \in 1..Get(counts, "num_nics", 0) |-> LanSeriesIndex(i - 1)]

\* Lines 1536-1594.
get_dynamic_status_entities_lan(counts) ==
    LET lan(i) == <<"lan">> \o FormatInt(LanSeriesIndex(i))
        nic(i) == <<lan(i) \o <<"_upload_raw">>, lan(i) \o <<"_upload">>,
                    lan(i) \o <<"_download_raw">>, lan(i) \o <<"_download">> >>
    IN  [ret |-> Flatten([i \in 1..Get(counts, "num_nics", 0) |-> nic(i - 1)])]

\* Lines 1597-1670.
get_dynamic_status_entities_storage(counts) ==
    LET disk(i) == <<"disk">> \o FormatInt(i + 1)
        one(i) == <<disk(i) \o <<"_read_rate_raw">>,
                    disk(i) \o <<"_read_rate">>,
                    disk(i) \o <<"_write_rate_raw">>,
                    disk(i) \o <<"_write_rate">>,
                    disk(i) \o <<"_temperature">> >>
    IN  [ret |-> Flatten([i \in 1..Get(counts, "num_disks", 0) |-> one(i - 1)])]

\* x.get(k, {}): AttributeError on anything but a mapping.
DictGet(x, k) ==
    IF Raised(x) THEN x
    ELSE IF ~IsMap(x) THEN Exception
    ELSE IF <<k>> \in DOMAIN x.map THEN x.map[<<k>>] ELSE Map(EmptyMap)

\* Lines 723-807: data is what get() returned for sysinfo/machine/common;
\* line 730 walks it without guarding its steps before the count is read.
get_dynamic_config_entities_mem(counts, data) ==
    LET mem_list == IF IsMap(data)
                    THEN DictGet(DictGet(DictGet(data, "data"), "hardware"),
                                 "mem")
                    ELSE List(<<>>)
        built == MemDescriptors(Get(counts, "num_rams", 0))
    IN  IF Raised(mem_list) THEN Exception
        ELSE [ret |-> [j \in DOMAIN built |-> built[j].key]]

\* Lines 979-1029: without has_ups nothing is fetched; the answer of the
\* get is not read.
get_dynamic_config_entities_ups(counts, data) ==
    [ret |-> IF ~Get(counts, "has_ups", FALSE) THEN <<>>
             ELSE << <<"ups", "_model">>, <<"ups", "_vendor">>,
                     <<"ups", "_power_free">> >>]

\* The counts a probe may have cached: none ({} after a failed probe) or
\* every count at n and every flag at b.
BuilderCounts ==
    {EmptyMap} \cup
    {[num_rams |-> n, num_nics |-> n, num_disks |-> n,
      num_device_fans |-> n, has_cpu_fan |-> b, has_ups |-> b] :
        n \in 0..MaxModules, b \in BOOLEAN}
\* What get() may return to a builder: {} after a failed request, or the
\* device's JSON, whose data entry may be null.
BuilderAnswers == MemBodies \cup {Obj1("data", None)}
BuilderCalls ==
    [fn : {"get_dynamic_status_entities_fan",
           "get_dynamic_status_entities_lan",
           "get_dynamic_status_entities_storage"},
     counts : BuilderCounts, data : {None},
     done : {FALSE}, out : {None}]
    \cup
    [fn : {"get_dynamic_config_entities_mem",
           "get_dynamic_config_entities_ups"},
     counts : BuilderCounts, data : BuilderAnswers,
     done : {FALSE}, out : {None}]

\* Lines 920-976: the USB builder, driven by the usb list of the answer
\* itself; three descriptions per device.  The default decimal_places of a
\* UgreenEntity is 2 (entities.py line 39).
get_dynamic_config_entities_usb(data) ==
    LET usb_list ==
            DictGet(DictGet(DictGet(IF Falsy(data) THEN Map(EmptyMap) ELSE data,
                                    "data"), "hardware"), "usb")
        n == IF IsList(usb_list) THEN Len(usb_list.list) ELSE 0
        ix(i) == IF n = 1 THEN <<>> ELSE FormatInt(i + 1)
        nm(i) == IF n = 1 THEN <<>> ELSE <<" ">> \o FormatInt(i + 1)
        desc(i, key, name) ==
            [key |-> <<"USB_device">> \o ix(i) \o <<"_", key>>,
             name |-> <<"USB Device">> \o nm(i) \o <<name>>,
             unit |-> None, decimal_places |-> 2]
        one(i) == <<desc(i, "model", " Model"), desc(i, "vendor", " Vendor"),
                    desc(i, "type", " Type")>>
    IN  IF Raised(usb_list) THEN Exception
        ELSE [ret |-> Flatten([i \in 1..n |-> one(i - 1)])]

\* What get() may return to the USB builder: up to MaxModules devices.
UsbAnswer(n) ==
    Obj1("data", Obj1("hardware",
        Obj1("usb", List([i \in 1..n |-> Obj1("device_type", Num(0))]))))
UsbCalls ==
    [fn : {"get_dynamic_config_entities_usb"},
     data : {FailedGet, Obj1("data", None)}
            \cup {UsbAnswer(n) : n \in 0..MaxModules},
     done : {FALSE}, out : {None}]

\* The names of the entries of data.net.series a device may answer the
\* probe with, and the probe of such a series followed by the NIC builder.
MaxSeries == 3
NetSeries == SeqsUpTo({"overview", "eth0", "eth1"}, MaxSeries)
LanCalls ==
    [fn : {"get_dynamic_status_entities_lan after count_dynamic_entities"},
     series : NetSeries, done : {FALSE}, out : {None}]

UtilsCalls ==
    MakeCalls \cup ExtractCalls \cup ScaleCalls \cup FormatCalls
        \cup BuilderCalls \cup UsbCalls \cup LanCalls

\* One call of one function, with its arguments.
InitUtils ==
    /\ ClientInit /\ token = ""
    /\ fetch = None
    /\ setup = None
    /\ state = None
    /\ call \in UtilsCalls

\* The call returns out, or raises when out is an exception.
Returns(out) ==
    /\ ~call.done
    /\ call' = [call EXCEPT !.done = TRUE, !.out = out]
    /\ UNCHANGED <<clientVars, fetch, setup, state>>

CallMakeEntities ==
    call.fn = "make_entities" /\ Returns(make_entities(call))

CallExtract ==
    /\ call.fn = "extract_value_from_path"
    /\ Returns([ret |-> extract_value_from_path(call.data, call.path)])

CallScale ==
    /\ call.fn = "scale_bytes_per_second"
    /\ Returns([ret |-> scale_bytes_per_second(call.raw)])

\* rule: history, the branch that returned.
CallFormat ==
    /\ call.fn = "format_sensor_value"
    /\ Returns([ret |-> format_sensor_value(call.raw, call.description),
                rule |-> Rule(call.description)])

\* One call of a category builder with the cached counts.
CallBuilder ==
    /\ call.fn \in {c.fn : c \in BuilderCalls}
    /\ Returns(
         CASE call.fn = "get_dynamic_status_entities_fan" ->
                get_dynamic_status_entities_fan(call.counts)
           [] call.fn = "get_dynamic_status_entities_lan" ->
                get_dynamic_status_entities_lan(call.counts)
           [] call.fn = "get_dynamic_status_entities_storage" ->
                get_dynamic_status_entities_storage(call.counts)
           [] call.fn = "get_dynamic_config_entities_mem" ->
                get_dynamic_config_entities_mem(call.counts, call.data)
           [] OTHER ->
                get_dynamic_config_entities_ups(call.counts, call.data))

\* One call of the USB builder.
CallUsbBuilder ==
    /\ call.fn = "get_dynamic_config_entities_usb"
    /\ Returns(get_dynamic_config_entities_usb(call.data))

\* api.py lines 687-690 and 1536-1594: the probe caches the number of
\* entries of the series whose name is not an overview name, and the NIC
\* builder then declares one descriptor group per counted entry.
CallLanBuilder ==
    /\ call.fn = "get_dynamic_status_entities_lan after count_dynamic_entities"
    /\ LET counts == [num_nics |-> Len(NonOverview(call.series))]
       IN  Returns([ret |-> get_dynamic_status_entities_lan(counts).ret,
                    indices |-> LanSeriesIndices(counts)])

NextUtils ==
    \/ CallMakeEntities
    \/ CallExtract
    \/ CallScale
    \/ CallFormat
    \/ CallBuilder
    \/ CallUsbBuilder
    \/ CallLanBuilder

SpecUtils == InitUtils /\ [][NextUtils]_vars

\* ------------------------------------------------- setup of a config entry
\* __init__.py: async_setup_entry() per config entry of the host.  setup
\* holds hass.data[DOMAIN] (data: per entry the stored runtime data or null)
\* and, per entry, where its setup call stands: pc, what authenticate()
\* gave (auth), the probe's counts, and history of the call: the steps it
\* has taken (did) and whether runtime data of the entry was stored when it
\* began (had).  Each call builds its own client (lines 53-59).
NumEntries == 2
MaxSetups == 3
Entries == 1..NumEntries

IdleSetup ==
    [pc |-> "idle", auth |-> "none", counts |-> EmptyMap, did |-> {},
     had |-> FALSE]
\* What the awaited authenticate() may give (true, false), and an exception
\* for the handler of line 65.
AuthOutcomes == {"true", "false", "raises"}
\* Line 63: the test of authenticate()'s result inside the try.
AuthPassesUnlessRaises(o) == o # "raises"
AuthPasses(o) == o = "true"
\* What count_dynamic_entities() may return: {} after a failed probe, or a
\* counts mapping.
ProbeResults == {EmptyMap, [num_rams |-> 1, has_cpu_fan |-> TRUE]}
\* Line 153 reads api.ws_keepalive, which api.py of src does not define:
\* the read raises AttributeError, or gives the update method where the
\* client defines it.
WsKeepalive == {"AttributeError", "update_method"}

InitSetup ==
    /\ ClientInit /\ token = ""
    /\ call = None
    /\ fetch = None
    /\ state = None
    /\ setup = [entry |-> [e \in Entries |-> IdleSetup],
                data |-> [e \in Entries |-> None],
                calls |-> 0]

SetupStep(e, r, d) ==
    /\ setup' = [setup EXCEPT !.entry[e] = r, !.data[e] = d]
    /\ UNCHANGED <<clientVars, call, fetch, state>>
At(e, pc) == setup.entry[e].pc = pc
Did(e, step) == [setup.entry[e] EXCEPT !.did = @ \cup {step}]

\* Lines 42-63: the host calls async_setup_entry() for an entry that is not
\* set up, or again after ConfigEntryNotReady; the call awaits
\* authenticate().
async_setup_entry(e) ==
    /\ At(e, "idle") \/ At(e, "not_ready")
    /\ setup.calls < MaxSetups
    /\ setup' = [setup EXCEPT
                   !.calls = @ + 1,
                   !.entry[e] = [IdleSetup EXCEPT
                                   !.pc = "authenticate",
                                   !.had = setup.data[e] # None]]
    /\ UNCHANGED <<clientVars, call, fetch, state>>

\* Lines 63-73: authenticate() returns or raises; false and an exception
\* both leave the call with ConfigEntryNotReady.
AuthenticateReturns(e) ==
    /\ At(e, "authenticate")
    /\ \E o \in AuthOutcomes :
          SetupStep(e, [setup.entry[e] EXCEPT
                          !.auth = o,
                          !.pc = IF AuthPasses(o) THEN "probe"
                                 ELSE "not_ready"],
                    setup.data[e])

\* Lines 73-103: the probe returns its counts; the common entities are
\* listed and grouped by endpoint.  api.DISCOVER_NAS_SPECIFIC_*_ENTITIES is
\* not defined by api.py: the AttributeError is caught (85, 97) and the
\* lists hold the common entities only.
ProbeReturns(e) ==
    /\ At(e, "probe")
    /\ \E c \in ProbeResults :
          SetupStep(e, [setup.entry[e] EXCEPT
                          !.counts = c, !.pc = "coordinators",
                          !.did = @ \cup {"probe", "entities"}],
                    setup.data[e])

\* Lines 129-169: the config and state coordinators are created; reading
\* api.ws_keepalive raises out of the call, or the third coordinator is
\* created and the runtime data of the entry is stored.
CreateCoordinators(e) ==
    /\ At(e, "coordinators")
    /\ \E w \in WsKeepalive :
          IF w = "AttributeError"
          THEN SetupStep(e, [Did(e, "coordinators") EXCEPT !.pc = "error"],
                         setup.data[e])
          ELSE SetupStep(e, [setup.entry[e] EXCEPT
                               !.pc = "refresh",
                               !.did = @ \cup {"coordinators", "stored"}],
                         [counts |-> setup.entry[e].counts,
                          nas_model |-> FALSE])

\* Lines 172-181: the first refresh of the three coordinators; a failure
\* raises ConfigEntryNotReady and leaves the stored data in place.
FirstRefresh(e) ==
    /\ At(e, "refresh")
    /\ \E ok \in BOOLEAN :
          SetupStep(e, [Did(e, "refresh") EXCEPT
                          !.pc = IF ok THEN "register" ELSE "not_ready"],
                    setup.data[e])

\* Lines 181-190 and 193-247: the device is registered (a failure is
\* logged, line 246; success stores the model and name, lines 236-237), the
\* platforms are forwarded and the call returns True.
ForwardPlatforms(e) ==
    /\ At(e, "register")
    /\ \E registered \in BOOLEAN :
          SetupStep(e, [Did(e, "forward") EXCEPT !.pc = "ready"],
                    [setup.data[e] EXCEPT !.nas_model = registered])

\* Lines 256-279: unloading pops the entry's runtime data when the
\* platforms unloaded.
async_unload_entry(e) ==
    /\ At(e, "ready")
    /\ \E unload_ok \in BOOLEAN :
          IF unload_ok
          THEN SetupStep(e, IdleSetup, None)
          ELSE SetupStep(e, [setup.entry[e] EXCEPT !.pc = "failed_unload"],
                         setup.data[e])

NextSetup ==
    \E e \in Entries :
        \/ async_setup_entry(e)
        \/ AuthenticateReturns(e)
        \/ ProbeReturns(e)
        \/ CreateCoordinators(e)
        \/ FirstRefresh(e)
        \/ ForwardPlatforms(e)
        \/ async_unload_entry(e)
SpecSetup == InitSetup /\ [][NextSetup]_vars

\* ------------------------------------------------ addons/ws_keepalive.py
\* The keep-alive sidecar: the loop task _ws_loop, the startup and shutdown
\* hooks, and the endpoints of main.py that publish a token.  A step of the
\* loop or of a hook is what runs between two awaits.  The record in the
\* variable state holds the fields of the state dict that the loop reads
\* (token, session, stop), app.state.ugreen_token, the loop's local backoff
\* list, the position of the loop task (task) and of the shutdown hook
\* (hook), the argument of the sleep the task is in (sleep), the token of
\* the url of the latest ws_connect (url), and history fields: the delays of
\* the two latest failures since the last successful connect (prev_delay,
\* last_delay, 0 = none), whether the loop slept idle since the last connect
\* attempt (idled), the position of the task when shutdown began (at_stop)
\* and whether the hook closed a session itself (hook_closed).

\* Python's None for a token; "" and None are both falsy.
NoToken == "<None>"
Truthy(t) == t \notin {NoToken, ""}
\* Tokens /token stores, and strings /credentials may store.
Tokens == {"tok1", "tok2"}
AppTokens == Tokens \cup {""}

\* Lines 81 and 130.
BackoffStart == <<1, 2, 5, 10, 15, 30, 60>>
\* Line 95.
IdleInterval == 15

\* Line 130, after a successful connect: the list starts again.
BackoffKept(backoff) == backoff
BackoffAfterConnect(backoff) == BackoffStart
\* Line 161: backoff = backoff[1:] or [60].
NextBackoff(backoff) ==
    IF Tail(backoff) = <<>> THEN <<60>> ELSE Tail(backoff)

\* Lines 26-38 and main.py line 13: the state at import time.
InitState ==
    [token |-> NoToken, session |-> "none", stop |-> FALSE,
     ugreen_token |-> NoToken, backoff |-> BackoffStart,
     task |-> "none", hook |-> "idle", sleep |-> 0, url |-> NoToken,
     cancelled |-> FALSE,
     prev_delay |-> 0, last_delay |-> 0, idled |-> FALSE,
     at_stop |-> "none", hook_closed |-> FALSE]

\* The positions at which the loop task is suspended in an await.
InTry == {"idle_sleep", "connecting", "subscribing", "connected"}
Suspended == InTry \cup {"backoff_sleep", "closing"}
Ended == {"done", "cancelled"}

\* Lines 51-69: the loop's token, adopted from app.state when it has none.
FetchTokenNever(s) == s
_fetch_token_if_needed(s) ==
    IF Truthy(s.token) THEN s
    ELSE IF Truthy(s.ugreen_token) /\ s.ugreen_token # s.token
    THEN [s EXCEPT !.token = s.ugreen_token]
    ELSE s

\* Lines 41-49: the session is created when there is none or it is closed.
_ensure_session(s) ==
    IF s.session = "open" THEN s ELSE [s EXCEPT !.session = "open"]

\* Lines 166-171, after the while loop: the session is closed if there is
\* one, and cleared.
LoopCleanup(s) ==
    IF s.session # "none" THEN [s EXCEPT !.task = "closing", !.sleep = 0]
    ELSE [s EXCEPT !.task = "done", !.sleep = 0]

\* Lines 82-118: the head of an iteration, up to its first await.
LoopHead(s) ==
    IF s.stop THEN LoopCleanup(s)
    ELSE LET t == _fetch_token_if_needed(s)
         IN  IF ~Truthy(t.token)
             THEN [t EXCEPT !.task = "idle_sleep", !.sleep = IdleInterval,
                            !.idled = TRUE]
             ELSE LET u == _ensure_session(t)
                      tok == IF Truthy(u.ugreen_token)
                                 /\ u.ugreen_token # u.token
                             THEN u.ugreen_token ELSE u.token
                  IN  [u EXCEPT !.token = tok, !.url = tok,
                                !.task = "connecting"]

\* Lines 157-164: the handler of an exception raised in the try block.
OnError(s) ==
    LET delay == Head(s.backoff)
    IN  [s EXCEPT !.backoff = NextBackoff(@), !.token = NoToken,
                  !.task = "backoff_sleep", !.sleep = delay,
                  !.prev_delay = s.last_delay, !.last_delay = delay]

\* Lines 132 and 154-156: the inner loop ends when stop is set, the
\* connection is left and the outer loop tests stop again.
InnerLoop(s) ==
    IF s.stop THEN LoopCleanup(s) ELSE [s EXCEPT !.task = "connected"]

\* Lines 189-195: what the shutdown hook does after waiting for the task.
HookCleanupSkipped(s) == [s EXCEPT !.hook = "returned"]
HookCleanup(s) ==
    IF s.session # "none" THEN [s EXCEPT !.hook = "closing"]
    ELSE [s EXCEPT !.hook = "returned"]

InitKeepAlive ==
    /\ ClientInit /\ token = ""
    /\ call = None
    /\ fetch = None
    /\ setup = None
    /\ state = InitState

\* main.py lines 18-29: /credentials stores the token it is given.
set_credentials(t) ==
    /\ state' = [state EXCEPT !.ugreen_token = t]
    /\ UNCHANGED <<clientVars, call, fetch, setup>>

\* main.py lines 45-71: /token stores the token of a successful login.
get_token(t) ==
    /\ state' = [state EXCEPT !.ugreen_token = t]
    /\ UNCHANGED <<clientVars, call, fetch, setup>>

\* Lines 175-181: the startup hook creates the loop task.
_startup_ws_sidecar ==
    /\ state.task = "none"
    /\ state' = [state EXCEPT !.stop = FALSE, !.task = "ready"]
    /\ UNCHANGED <<clientVars, call, fetch, setup>>

\* Lines 82-118: the task runs from the while test to its next await.
_ws_loop ==
    /\ state.task = "ready"
    /\ state' = LoopHead(state)
    /\ UNCHANGED <<clientVars, call, fetch, setup>>

\* Lines 95-96 and 164: a sleep is over, the loop tests stop again.
SleepReturns ==
    /\ state.task \in {"idle_sleep", "backoff_sleep"}
    /\ state' = [state EXCEPT !.task = "ready", !.sleep = 0]
    /\ UNCHANGED <<clientVars, call, fetch, setup>>

\* Line 118: ws_connect returns a connection, or raises.
ConnectReturns ==
    /\ state.task = "connecting"
    /\ \E ok \in BOOLEAN :
         state' = IF ok
                  THEN [state EXCEPT !.task = "subscribing",
                                     !.prev_delay = 0, !.last_delay = 0,
                                     !.idled = FALSE]
                  ELSE OnError(state)
    /\ UNCHANGED <<clientVars, call, fetch, setup>>

\* Lines 125-132: send_json is over (what it raises is suppressed), the
\* backoff list is reset and the inner loop begins.
SendJsonReturns ==
    /\ state.task = "subscribing"
    /\ state' = InnerLoop([state EXCEPT !.backoff = BackoffAfterConnect(@)])
    /\ UNCHANGED <<clientVars, call, fetch, setup>>

\* Lines 132-151: ping and receive; a message keeps the inner loop going, a
\* close or error message, a timeout of receive or a failed ping raises.
ReceiveReturns ==
    /\ state.task = "connected"
    /\ \E ok \in BOOLEAN :
         state' = IF ok THEN InnerLoop(state) ELSE OnError(state)
    /\ UNCHANGED <<clientVars, call, fetch, setup>>

\* Lines 167-171: the loop's session.close() is over.
CloseReturns ==
    /\ state.task = "closing"
    /\ state' = [state EXCEPT !.session = "none", !.task = "done"]
    /\ UNCHANGED <<clientVars, call, fetch, setup>>

\* Lines 184-188: the shutdown hook sets stop and waits for the task.
_shutdown_ws_sidecar ==
    /\ state.hook = "idle" /\ state.task # "none"
    /\ state' = [state EXCEPT !.stop = TRUE, !.hook = "waiting",
                              !.at_stop = state.task]
    /\ UNCHANGED <<clientVars, call, fetch, setup>>

\* Line 188: wait_for's timeout cancels the task where it is suspended.
\* CancelledError raised in the try block is caught (lines 154-156) and the
\* loop goes on to its cleanup; raised in the sleep of the handler (line
\* 164) or in the cleanup's close (line 169) it ends the task there, and a
\* close that was cancelled may or may not have closed the session.
WaitForTimeout ==
    /\ state.hook = "waiting" /\ ~state.cancelled
    /\ state.task \in Suspended
    /\ \E closed \in BOOLEAN :
         state' =
           IF state.task \in InTry
           THEN LoopCleanup([state EXCEPT !.cancelled = TRUE])
           ELSE [state EXCEPT !.cancelled = TRUE, !.task = "cancelled",
                   !.sleep = 0,
                   !.session = IF state.task = "closing" /\ closed
                               THEN "closed" ELSE @]
    /\ UNCHANGED <<clientVars, call, fetch, setup>>

\* Lines 188-195: the task has ended and wait_for returns.
WaitForReturns ==
    /\ state.hook = "waiting" /\ state.task \in Ended
    /\ state' = HookCleanup(state)
    /\ UNCHANGED <<clientVars, call, fetch, setup>>

\* Lines 192-195: the hook's session.close() is over, the session cleared.
HookCloseReturns ==
    /\ state.hook = "closing"
    /\ state' = [state EXCEPT !.session = "none", !.hook = "returned",
                              !.hook_closed = TRUE]
    /\ UNCHANGED <<clientVars, call, fetch, setup>>

LoopStep ==
    \/ _ws_loop \/ SleepReturns \/ ConnectReturns \/ SendJsonReturns
    \/ ReceiveReturns \/ CloseReturns
HookStep == WaitForTimeout \/ WaitForReturns \/ HookCloseReturns

NextKeepAlive ==
    \/ \E t \in AppTokens : set_credentials(t)
    \/ \E t \in Tokens : get_token(t)
    \/ _startup_ws_sidecar
    \/ _ws_loop
    \/ SleepReturns
    \/ ConnectReturns
    \/ SendJsonReturns
    \/ ReceiveReturns
    \/ CloseReturns
    \/ _shutdown_ws_sidecar
    \/ WaitForTimeout
    \/ WaitForReturns
    \/ HookCloseReturns

SpecKeepAlive == InitKeepAlive /\ [][NextKeepAlive]_vars

\* The event loop runs every task that can run, timers fire and an awaited
\* call on the network returns (a result, an error or a timeout); only a
\* connection that stays up has no step it must take.
SpecKeepAliveFair ==
    /\ SpecKeepAlive
    /\ WF_vars(_startup_ws_sidecar)
    /\ WF_vars(_ws_loop) /\ WF_vars(SleepReturns) /\ WF_vars(ConnectReturns)
    /\ WF_vars(SendJsonReturns) /\ WF_vars(CloseReturns)
    /\ WF_vars(HookStep)

\* ---------------------------------------------------------------- claims
InExchange(p) == task[p].pc \in {"login_pk", "login_post"}
IsRequest(p) == task[p].op = "_request"
IsProbe(p) == task[p].op = "count_dynamic_entities"
Returned(p) == task[p].pc = "done"

\* C1: a _request() call entered with a token whose first answer carries code
\* 1024 performs exactly one login; after a successful login it issues the
\* data request exactly once more and returns what that second attempt
\* yields (a mapping with a code, 1024 included, or {} when it raised).  No
\* call issues the data request more than twice or re-logs in more than once.
C1_RetryOnce ==
    \A p \in Tasks : IsRequest(p) =>
        LET r == task[p]
            relogins == r.nLogin - (IF r.tok0 = "" THEN 1 ELSE 0)
        IN  /\ r.nDo <= 2
            /\ relogins <= 1
            /\ (r.tok0 # "" /\ r.first = CodeTokenExpired) =>
                  /\ r.nLogin = 1
                  /\ r.phase = "second" => r.nDo = 2
                  /\ Returned(p) =>
                       \/ r.nDo = 1 /\ r.ret = EmptyMap
                       \/ r.nDo = 2 /\ (r.exc \/ r.ret.code \in DeviceCodes)
            /\ r.first # CodeTokenExpired => r.nDo <= 1

\* C1 witness: one call returned the 200 answer of its second attempt after
\* one re-login, another returned the second 1024 as it came.
C1_Witness ==
    \E p, q \in Tasks :
        /\ IsRequest(p) /\ Returned(p) /\ task[p].tok0 # ""
        /\ task[p].first = CodeTokenExpired /\ task[p].nDo = 2
        /\ task[p].nLogin = 1 /\ ~task[p].exc /\ task[p].ret.code = CodeOk
        /\ IsRequest(q) /\ Returned(q) /\ task[q].tok0 # ""
        /\ task[q].first = CodeTokenExpired /\ task[q].nDo = 2
        /\ task[q].nLogin = 1 /\ ~task[q].exc
        /\ task[q].ret.code = CodeTokenExpired

\* A call whose first answer was 1024 and whose re-login failed.
ReloginFailed(p) ==
    /\ IsRequest(p) /\ Returned(p)
    /\ task[p].first = CodeTokenExpired /\ task[p].nDo = 1

ReloginFails(p) ==
    /\ IsRequest(p) /\ task[p].phase = "relogin" /\ InExchange(p)
    /\ task'[p].pc = "done"

ExpiredOrTransportFailure(p) ==
    /\ task[p].pc = "do"
    /\ \/ task'[p].phase = "relogin"
       \/ ~task[p].exc /\ task'[p].exc

C4_OneLoginInFlight ==
    \A p, q \in Tasks :
        InExchange(p) =>
            /\ _login_lock = p
            /\ InExchange(q) => p = q

\* C4 witness: one task is in its login exchange while another task that
\* also needs a login is queued for the lock.
C4_Witness ==
    \E p, q \in Tasks :
        /\ task[p].pc = "login_post"
        /\ task[q].pc = "login_wait"
        /\ IsRequest(p) /\ task[q].op = "authenticate"

ZeroOf(k) ==
    IF k \in {"has_ups", "has_cpu_fan", "has_device_fan", "has_gpu"}
    THEN FALSE ELSE 0

Restrict(m, keys) == [k \in DOMAIN m \cap keys |-> m[k]]

\* C6: the capability probe is idempotent and cached.  Over any interleaving
\* of count_dynamic_entities() calls each of the four probe endpoints is
\* requested (a client get) at most once, every caller that has returned
\* holds the cached mapping, and once the mapping is set it never changes.
C6_ProbedOnce ==
    /\ [](/\ \A e \in ProbeEndpoints : requested[e] <= 1
          /\ \A p \in Tasks : (IsProbe(p) /\ Returned(p)) =>
                /\ _dynamic_entity_counts # None
                /\ task[p].ret = _dynamic_entity_counts)
    /\ [][_dynamic_entity_counts # None =>
             _dynamic_entity_counts' = _dynamic_entity_counts]_vars

\* C6 witness: the probe requested each endpoint once; the task that ran it
\* and a task that arrived while it was running (and queued for the lock)
\* both returned the same non-empty mapping.
C6_Witness ==
    \E p, q \in Tasks :
        /\ p # q /\ IsProbe(p) /\ IsProbe(q) /\ Returned(p) /\ Returned(q)
        /\ task[q].waited /\ ~task[p].waited
        /\ \A e \in ProbeEndpoints : requested[e] = 1
        /\ task[p].ret = task[q].ret
        /\ Get(task[p].ret, "num_nics", 0) = 1
        /\ Get(task[p].ret, "num_rams", 0) = MaxUnits

\* C7: an exception raised during the probe is caught: the probe resolves
\* to the empty mapping, which is cached, and every call that has returned,
\* later ones included, returned that empty mapping without probing again.
C7_ExceptionCachedEmpty ==
    raised =>
        /\ _dynamic_entity_counts = EmptyMap
        /\ \A e \in ProbeEndpoints : requested[e] <= 1
        /\ \A p \in Tasks : (IsProbe(p) /\ Returned(p)) =>
              task[p].ret = EmptyMap

\* C7 witness: the probe raised on its third answer after two good ones, and
\* a call made after the probe had finished returned the empty mapping from
\* the cache.
C7_Witness ==
    \E p, q \in Tasks :
        /\ p # q /\ raised /\ calls = 3
        /\ requested = [e \in ProbeEndpoints |-> IF e <= 3 THEN 1 ELSE 0]
        /\ IsProbe(p) /\ Returned(p) /\ task[p].ret = EmptyMap
        /\ BodyOf(task[p].last).kind = "malformed"
        /\ IsProbe(q) /\ Returned(q) /\ task[q].ret = EmptyMap
        /\ ~task[q].waited /\ task[q].last = None

\* The run in which the probe of task p takes the answer of its request e
\* without raising.
ProbeTakes(p, e) ==
    /\ IsProbe(p) /\ task[p].step = e /\ task'[p].step # e
    /\ ~(BodyOf(task'[p].last).kind = "malformed"
         /\ (e = 4 => Get(task'[p].last, "code", 0) = CodeOk))

\* C8: the probe is fail-soft per field.  Taking the answer of one request
\* leaves the counts of the earlier requests as they were and sets that
\* request's own counts from its own answer alone; a failed request ({})
\* leaves its counts zero or absent, and the probe goes on to the next
\* request (or stores the mapping after the last) instead of aborting.
C8_FailSoftPerField ==
    [][\A p \in Tasks : \A e \in ProbeEndpoints : ProbeTakes(p, e) =>
          LET new == task'[p]
              c == IF new.pc = "done" THEN new.ret ELSE new.counts
          IN  /\ IF e < 4 THEN new.step = e + 1 /\ new.pc # "done"
                 ELSE new.pc = "done" /\ _dynamic_entity_counts' = c
              /\ Restrict(c, DOMAIN c \ Fields(e)) = task[p].counts
              /\ Restrict(c, Fields(e)) = ProbeCounts(e, EmptyMap, new.last)
              /\ new.last = EmptyMap =>
                    \A k \in Fields(e) \cap DOMAIN c : c[k] = ZeroOf(k)]_vars

\* C8 witness: the third request (pool/list) failed; the probe is at its
\* fourth request with the pool counts zero and the counts of the first two
\* requests as their answers gave them.
C8_Witness ==
    \E p \in Tasks :
        /\ IsProbe(p) /\ task[p].step = 4 /\ task[p].pc = "do"
        /\ task[p].last = EmptyMap
        /\ task[p].counts =
             [num_rams |-> MaxUnits, num_usbs |-> 1, has_ups |-> TRUE,
              num_disks |-> MaxUnits, num_pools |-> 0, num_volumes |-> 0]

\* C9: no data request is issued with an empty token.  A _request() call
\* entered without a token logs in before its first data request, and when
\* that login fails it returns {} without having issued a data request.
C9_NoRequestWithoutToken ==
    \A p \in Tasks : IsRequest(p) =>
        LET r == task[p]
        IN  /\ r.pc = "do" => r.url # ""
            /\ (r.tok0 = "" /\ r.nDo > 0) => r.nLogin >= 1
            /\ (Returned(p) /\ r.nDo = 0) =>
                  r.tok0 = "" /\ r.nLogin = 1 /\ r.ret = EmptyMap

\* C9 witness: a call entered without a token returned {} after its login
\* failed, with no data request issued, while another call entered without a
\* token has its data request in flight after a successful login.
C9_Witness ==
    \E p, q \in Tasks :
        /\ IsRequest(p) /\ Returned(p) /\ task[p].tok0 = ""
        /\ task[p].nDo = 0 /\ task[p].nLogin = 1 /\ task[p].ret = EmptyMap
        /\ IsRequest(q) /\ task[q].pc = "do" /\ task[q].tok0 = ""
        /\ task[q].url = "tok"

\* C10: a transport-level failure at any point of a _request() call ends the
\* call in that same run with the result {}: it is not propagated, and no
\* login and no further data request follow it.
C10_TransportFailureEndsCall ==
    \A p \in Tasks : (IsRequest(p) /\ task[p].exc) =>
        Returned(p) /\ task[p].ret = EmptyMap

\* C10 witness: a call returned {} after the transport failure of its second
\* data request (the one reissued after a 1024 re-login), another after the
\* failure of its first.
C10_Witness ==
    \E p, q \in Tasks :
        /\ IsRequest(p) /\ Returned(p) /\ task[p].exc
        /\ task[p].nDo = 2 /\ task[p].nLogin = 1 /\ task[p].ret = EmptyMap
        /\ IsRequest(q) /\ Returned(q) /\ task[q].exc
        /\ task[q].nDo = 1 /\ task[q].nLogin = 0 /\ task[q].ret = EmptyMap

\* The login answer a reports code 200 and a non-empty data.token.
GoodLoginAnswer(a) ==
    "code" \in DOMAIN a /\ a.code = CodeOk /\ a.token # ""

\* C11: login() always returns a boolean.  A call returns false when either
\* POST raised, the x-rsa-token header was missing, the key could not be
\* loaded, the code was not 200 or data.token was missing; it returns true
\* only for a 200 answer with a non-empty token, and that token is stored.
C11_LoginNeverRaises ==
    \A p \in Tasks : (task[p].op = "login" /\ Returned(p)) =>
        LET a == task[p].ans
        IN  /\ a # None
            /\ task[p].ok <=> GoodLoginAnswer(a)
            /\ task[p].ok => (token = a.token /\ token # "")
            /\ task[p].exc => ~task[p].ok

\* C11 witness: one direct login() returned false on a 200 answer without a
\* token, another returned true with the device's token stored.
C11_Witness ==
    \E p, q \in Tasks :
        /\ task[p].op = "login" /\ Returned(p) /\ ~task[p].ok
        /\ task[p].ans = [code |-> CodeOk, token |-> ""]
        /\ task[q].op = "login" /\ Returned(q) /\ task[q].ok
        /\ token = "tok"

\* The endpoints some entity of the pass reads from.
EndpointsOf(groups) == {groups[i].endpoint : i \in DOMAIN groups}

\* C12: one fetch pass issues exactly one client get per distinct endpoint,
\* however many entities read from that endpoint: no endpoint is requested
\* twice during a pass, and when the pass has returned every endpoint that
\* has an entity was requested once and no other endpoint at all.
C12_OneGetPerEndpoint ==
    \A e \in FetchEndpoints :
        /\ fetch.gets[e] <= 1
        /\ fetch.pc = "done" =>
             fetch.gets[e] = IF e \in EndpointsOf(fetch.groups) THEN 1 ELSE 0

\* C12 witness: a finished pass over two endpoints, one of them read by two
\* entities, with one get made for each endpoint.
C12_Witness ==
    /\ fetch.pc = "done"
    /\ \E i \in DOMAIN fetch.groups : Len(fetch.groups[i].entities) = 2
    /\ Cardinality(EndpointsOf(fetch.groups)) = 2
    /\ \A e \in EndpointsOf(fetch.groups) : fetch.gets[e] = 1

\* Every entity of group g has the value null in the result.
AllNull(g) ==
    \A i \in DOMAIN g.entities : fetch.data[g.entities[i].key] = None

\* C13 as stated: when the pass has returned, every endpoint was asked; all
\* entities of an endpoint that failed at transport level (plain paths,
\* scale_bytes_per_second and ram_total_size alike) have the value null,
\* and the plain-path entities of an endpoint that answered have the value
\* extracted from its answer.
C13_Original ==
    fetch.pc = "done" =>
        \A i \in DOMAIN fetch.groups :
            LET g == fetch.groups[i]
            IN  /\ g.endpoint \in DOMAIN fetch.answers
                /\ fetch.answers[g.endpoint] = FailedGet => AllNull(g)
                /\ fetch.answers[g.endpoint] # FailedGet =>
                     \A j \in DOMAIN g.entities :
                        g.entities[j].path[1] # "calculated" =>
                           fetch.data[g.entities[j].key] =
                              extract_value_from_path(
                                  fetch.answers[g.endpoint],
                                  g.entities[j].path)

\* A make_entities call that has returned a list.
MadeEntities ==
    call.fn = "make_entities" /\ call.done /\ ~Raised(call.out)

\* The count a make_entities call resolves to: the count argument (none and
\* negative counting as 0) or the length of the list the body holds at
\* data.hardware.mem.
MemOf(b) == b.map[<<"data">>].map[<<"hardware">>].map[<<"mem">>]
ResolvedCount(c) ==
    IF c.list_path = None
    THEN IF c.count = None \/ c.count.num < 0 THEN 0 ELSE c.count.num
    ELSE IF c.fetch = None \/ c.fetch.returns \in {None, Map(EmptyMap)} THEN 0
    ELSE Len(MemOf(c.fetch.returns).list)

\* The naming rule: n instances with one entity per template each; the key
\* is the prefix, the instance number unless the build is a compact single
\* one, and the template's literal suffix.
NamedByRule(c, out) ==
    LET n == ResolvedCount(c)
        T == c.templates
    IN  /\ n = 0 => out = <<>>
        /\ Len(out) = n * Len(T)
        /\ \A i \in 0..(n - 1) : \A t \in DOMAIN T :
              out[i * Len(T) + t].key =
                 c.prefix_key_base
                 \o (IF n = 1 /\ c.single_compact THEN <<>>
                     ELSE FormatInt(c.index_start + i))
                 \o Tail(T[t].key)
UniqueKeys(out) ==
    \A a, b \in DOMAIN out : a # b => out[a].key # out[b].key

\* C14 as stated: the keys follow the naming rule (bare prefix for a compact
\* single instance, index_start + i otherwise, nothing for count 0), and for
\* templates "{prefix_key}" + pairwise distinct literal suffixes no two
\* entities of one build share a key, for every count.
C14_Original ==
    MadeEntities =>
        /\ NamedByRule(call, call.out.ret)
        /\ UniqueKeys(call.out.ret)

\* C14 amended: the keys follow the naming rule, and no two entities of one
\* build share a key provided the pairwise distinct literal suffixes do not
\* begin with a digit.  (With a suffix that begins with a digit the number
\* of one instance can run into the suffix: for the suffixes "_size" and
\* "0_size", instance 1 and instance 10 both yield "RAM10_size".)
C14_NamingUnique ==
    MadeEntities =>
        /\ NamedByRule(call, call.out.ret)
        /\ (\A t \in DOMAIN call.templates :
                ~IsDigit(call.templates[t].key[2]))
           => UniqueKeys(call.out.ret)

\* C14 witness: a build of ten instances from two templates whose suffixes
\* begin with no digit returned twenty entities, the first keyed RAM1_model
\* and the last RAM10_size.
C14_Witness ==
    /\ MadeEntities
    /\ call.count = Num(10) /\ call.index_start = 1
    /\ call.templates = <<RamTemplate(<<"_model">>), RamTemplate(<<"_size">>)>>
    /\ Len(call.out.ret) = 20
    /\ call.out.ret[1].key = <<"RAM", "1", "_model">>
    /\ call.out.ret[20].key = <<"RAM", "1", "0", "_size">>

\* The value a path shape denotes in a tree: the nested value when every
\* segment finds its key in a mapping and its index inside a list, null as
\* soon as a segment does not.
RECURSIVE Nested(_, _)
Nested(v, shape) ==
    IF shape = <<>> THEN v
    ELSE LET seg == Head(shape)
         IN  IF ~IsMap(v) THEN None
             ELSE IF seg.name \notin DOMAIN v.map THEN None
             ELSE LET w == v.map[seg.name]
                  IN  IF "index" \notin DOMAIN seg
                      THEN Nested(w, Tail(shape))
                      ELSE IF ~IsList(w) THEN None
                      ELSE IF seg.index >= Len(w.list) THEN None
                      ELSE Nested(w.list[seg.index + 1], Tail(shape))

\* C15: extract_value_from_path is total and fail-soft.  For a path of
\* dot-separated segments with at most one trailing [integer] index each it
\* returns the nested value when the tree matches the path shape, and null,
\* without raising, when a segment names a missing key, looks a key up in a
\* non-mapping, indexes a non-sequence or uses an out-of-range index.
C15_ExtractFailSoft ==
    (call.fn = "extract_value_from_path" /\ call.done) =>
        call.out = [ret |-> Nested(call.data, call.shape)]

\* C15 witness: the path a[1].a returned the number found there in a tree
\* whose key a holds a list of two items.
C15_Witness ==
    /\ call.fn = "extract_value_from_path" /\ call.done
    /\ call.path = <<"a", "[", "1", "]", ".", "a">>
    /\ IsList(call.data.map[<<"a">>]) /\ Len(call.data.map[<<"a">>].list) = 2
    /\ call.out = [ret |-> Num(7)]

\* A scale_bytes_per_second call with argument raw has returned out.
Scaled(raw, out) ==
    (call.fn = "scale_bytes_per_second" /\ call.done /\ call.raw = raw)
        => call.out = [ret |-> out]

\* C16 as stated: scale_bytes_per_second(1536) returns "1 kB/s",
\* scale_bytes_per_second(0) returns "0 B/s" and
\* scale_bytes_per_second(None) returns None.
C16_Original ==
    /\ Scaled(Num(1536), Str(<<"1", " ", "kB/s">>))
    /\ Scaled(Num(0), Str(<<"0", " ", "B/s">>))
    /\ Scaled(None, None)

\* C16 amended: scale_bytes_per_second(1536) returns "2 kB/s" (1536 / 1024
\* is 1.5, which rounds half up to 2); scale_bytes_per_second(1535) returns
\* "1 kB/s", scale_bytes_per_second(0) returns "0 B/s" and
\* scale_bytes_per_second(None) returns None.
C16_ScaleExamples ==
    /\ Scaled(Num(1536), Str(<<"2", " ", "kB/s">>))
    /\ Scaled(Num(1535), Str(<<"1", " ", "kB/s">>))
    /\ Scaled(Num(0), Str(<<"0", " ", "B/s">>))
    /\ Scaled(None, None)

\* C16 witness: the call with 1536 has returned "2 kB/s".
C16_Witness ==
    /\ call.fn = "scale_bytes_per_second" /\ call.done
    /\ call.raw = Num(1536)
    /\ call.out = [ret |-> Str(<<"2", " ", "kB/s">>)]

\* The dispatch order C17 states, and when each rule matches a description.
Priority ==
    <<"size", "timestamp", "server_status", "disk_status", "fan_overall",
      "fan_status", "disk_type", "volume_health", "usb_device_type",
      "percentage", "temperature", "rate", "mhz", "number">>
Matches(rule, d) ==
    LET has(w) == Contains(d.key, <<w>>)
        unit(u) == d.unit = Str(<<u>>)
    IN  CASE rule = "size" ->
               unit("B") \/ unit("kB") \/ unit("MB") \/ unit("GB") \/ unit("TB")
          [] rule = "timestamp" -> Contains(d.name, <<"Timestamp">>)
          [] rule = "server_status" ->
               Contains(d.key, <<"server", "_", "status">>)
          [] rule = "disk_status" -> has("disk") /\ has("status")
          [] rule = "fan_overall" -> has("fan") /\ has("overall")
          [] rule = "fan_status" -> has("fan") /\ has("status")
          [] rule = "disk_type" ->
               has("disk") /\ has("type") /\ ~has("interface")
          [] rule = "volume_health" -> has("volume") /\ has("health")
          [] rule = "usb_device_type" ->
               Contains(d.key, <<"USB_device", "_", "type">>)
          [] rule = "percentage" -> unit("%")
          [] rule = "temperature" -> unit("Â°C")
          [] rule = "rate" -> unit("kB/s") \/ unit("MB/s") \/ unit("GB/s")
          [] rule = "mhz" -> unit("MHz")
          [] OTHER -> TRUE
FirstMatch(d) ==
    Priority[CHOOSE i \in DOMAIN Priority :
                /\ Matches(Priority[i], d)
                /\ \A j \in 1..(i - 1) : ~Matches(Priority[j], d)]

\* C17: format_sensor_value applies the first rule that matches, in the
\* order byte-size unit, 'Timestamp' in the name, server status, disk
\* status, overall fan status, per-unit fan status, disk type, volume
\* health, USB device type, percentage, temperature, byte-rate, MHz, numeric
\* coercion.  So a key with 'fan', 'status' and 'overall' is never rendered
\* with the per-unit fan table, and with the overall-fan table (0 ->
\* 'Normal') whenever no rule before the fan rules matches; and a
\* description with a byte-size unit is size-scaled even if its name
\* contains 'Timestamp'.
C17_DispatchOrder ==
    (call.fn = "format_sensor_value" /\ call.done) =>
        LET d == call.description
            fanOverall == /\ Contains(d.key, <<"fan">>)
                          /\ Contains(d.key, <<"status">>)
                          /\ Contains(d.key, <<"overall">>)
        IN  /\ call.out.rule = FirstMatch(d)
            /\ fanOverall =>
                 /\ call.out.rule # "fan_status"
                 /\ (call.out.rule = "fan_overall" /\ call.raw = Num(0))
                        => call.out.ret = Str(<<"Normal">>)
                 /\ (\A j \in 1..4 : ~Matches(Priority[j], d))
                        => call.out.rule = "fan_overall"
            /\ (Matches("size", d) /\ Matches("timestamp", d)) =>
                 /\ call.out.rule = "size"
                 /\ call.out.ret =
                       format_dynamic_size(call.raw, d.unit.str[1],
                                           d.decimal_places)

\* C17 witness: the key fan_status_overall with raw 0 was rendered 'Normal'
\* by the overall-fan rule.
C17_Witness ==
    /\ call.fn = "format_sensor_value" /\ call.done
    /\ call.description.key = <<"fan", "_", "status", "_", "overall">>
    /\ call.description.unit = None
    /\ call.description.name = <<"Fan Status">>
    /\ call.raw = Num(0)
    /\ call.out = [ret |-> Str(<<"Normal">>), rule |-> "fan_overall"]

\* The stat answer a finished probe took last, when it took one.
StatTaken(p) ==
    /\ IsProbe(p) /\ Returned(p)
    /\ Get(task[p].last, "code", 0) = CodeOk
    /\ "device_fan" \in DOMAIN BodyOf(task[p].last)

\* C18: a single fan object under device_fan in the stat answer is counted
\* as one fan: the probe returns num_device_fans = 1 and has_device_fan
\* true and does not fail (its result is not the empty mapping); a single
\* object under cpu_fan gives has_cpu_fan true.
C18_SingleFanObject ==
    \A p \in Tasks : StatTaken(p) =>
        LET b == BodyOf(task[p].last)
            c == task[p].ret
        IN  /\ b.device_fan = FanDict =>
                 /\ c # OnProbeException
                 /\ Get(c, "num_device_fans", 0) = 1
                 /\ Get(c, "has_device_fan", FALSE)
            /\ b.cpu_fan = FanDict =>
                 /\ c # OnProbeException
                 /\ Get(c, "has_cpu_fan", FALSE)

\* C18 witness: a probe finished on a stat answer holding one object under
\* device_fan and one under cpu_fan, and counted one device fan and a CPU
\* fan.
C18_Witness ==
    \E p \in Tasks :
        /\ StatTaken(p)
        /\ BodyOf(task[p].last).device_fan = FanDict
        /\ BodyOf(task[p].last).cpu_fan = FanDict
        /\ task[p].ret # OnProbeException
        /\ task[p].ret["num_device_fans"] = 1
        /\ task[p].ret["has_device_fan"] /\ task[p].ret["has_cpu_fan"]

\* C19: an authenticate() that returns false or raises ends the setup call
\* with ConfigEntryNotReady at once: the call has taken none of the later
\* steps (probe, entity build, coordinator creation, storing runtime data,
\* first refresh, platform forwarding), it has stored no runtime data for
\* the entry (the entry has none unless an earlier call left it there), and
\* an entry is ready only after authenticate() returned true.
C19_AuthFailureBlocksSetup ==
    \A e \in Entries :
        LET r == setup.entry[e]
        IN  /\ r.auth \in {"false", "raises"} =>
                 /\ r.pc = "not_ready"
                 /\ r.did = {}
                 /\ ~r.had => setup.data[e] = None
            /\ r.pc \in {"probe", "coordinators", "refresh", "register",
                         "ready", "error", "failed_unload"}
                 => r.auth = "true"
            /\ r.did # {} => r.auth = "true"

\* C19 witness: one entry's setup ended not ready on authenticate()
\* returning false, with no step taken and no runtime data, while another
\* entry, whose authenticate() returned true, is ready with its data stored.
C19_Witness ==
    \E e, f \in Entries :
        /\ setup.entry[e].auth = "false" /\ setup.entry[e].pc = "not_ready"
        /\ setup.entry[e].did = {} /\ setup.data[e] = None
        /\ setup.entry[f].pc = "ready" /\ setup.entry[f].auth = "true"
        /\ setup.data[f] # None
        /\ "forward" \in setup.entry[f].did

\* The descriptors a builder declares outside its count-driven part.
Unconditional(fn) ==
    CASE fn = "get_dynamic_status_entities_fan" -> <<FanStatusOverall>>
      [] fn = "get_dynamic_config_entities_mem" -> <<RamTotalKey>>
      [] OTHER -> <<>>
BuilderDone ==
    call.fn \in {c.fn : c \in BuilderCalls} /\ call.done

\* C20, as stated: with an empty counts mapping every category builder
\* returns without raising, and returns its unconditional descriptors only
\* (the overall fan status, the RAM total) and no per-instance descriptor.
C20_Original ==
    (BuilderDone /\ call.counts = EmptyMap) =>
        /\ ~Raised(call.out)
        /\ call.out.ret = Unconditional(call.fn)

\* C27, as stated: whenever no call is in progress on the client, _authed
\* is true exactly when a non-empty token is stored.
C27_Original ==
    (\A p \in Tasks : task[p].pc \in {"idle", "done"}) =>
        (_authed <=> token # "")

\* A scale_bytes_per_second call on the integer n has returned "m unit",
\* with unit the RateUnits entry of index k.
ScaledTo(n, m, k) ==
    /\ call.fn = "scale_bytes_per_second" /\ call.done
    /\ call.raw = Num(n)
    /\ call.out = [ret |-> Str(FormatInt(m) \o <<" ", RateUnits[k + 1]>>)]
ScaledInt ==
    call.fn = "scale_bytes_per_second" /\ call.done /\ IsNum(call.raw)

\* C28, as stated: for a non-negative integer input the rendered magnitude
\* is below 1024 whenever the unit is smaller than TB/s.
C28_Original ==
    ScaledInt =>
        \E k \in 0..4, m \in 0..1024 :
            /\ ScaledTo(call.raw.num, m, k)
            /\ k < 4 => m < 1024

\* C23, as stated: a raw value whose description carries the Celsius unit of
\* the entity tables and matches no rule before the temperature rule is
\* returned rounded to the nearest integer.
C23_Original ==
    (/\ call.fn = "format_sensor_value" /\ call.done
     /\ call.description.unit = Str(<<Celsius>>)
     /\ \A j \in 1..10 : ~Matches(Priority[j], call.description)
     /\ IsNum(call.raw) \/ IsReal(call.raw))
        => /\ IsNum(call.out.ret)
           /\ call.out.ret = format_temperature(call.raw)

\* The device-type descriptions a finished USB builder call returned.
UsbTypeDescriptions ==
    IF call.fn = "get_dynamic_config_entities_usb" /\ call.done
       /\ ~Raised(call.out)
    THEN {call.out.ret[i] : i \in
            {j \in DOMAIN call.out.ret :
                EndsWith(call.out.ret[j].key, <<"_", "type">>)}}
    ELSE {}

\* C30, as stated: every device-type description the USB builder returns,
\* for one device or several, is rendered by format_sensor_value through the
\* USB device-type table: a known code gives its label, an unknown code
\* 'Unknown status: {raw}'.
C30_Original ==
    \A d \in UsbTypeDescriptions :
        /\ Rule(d) = "usb_device_type"
        /\ format_sensor_value(Num(0), d) = Str(<<"Generic USB Device">>)
        /\ format_sensor_value(Num(1), d) = Str(<<"Unknown status: ", "1">>)

\* The name after "calculated:" in a path, up to the next ":".
HandlerName(path) == SplitMax(path, ":", 2)[2]
\* The entities of a pass, whatever their endpoint.
PassEntities ==
    UNION {{fetch.groups[i].entities[j] :
              j \in DOMAIN fetch.groups[i].entities} : i \in DOMAIN fetch.groups}

\* C22, as stated: when the pass has returned, every descriptor whose path
\* starts with 'calculated:' and whose handler name is not exactly
\* ram_total_size or scale_bytes_per_second (names that only begin with one
\* of the two included) has the value null.
C22_Original ==
    fetch.pc = "done" =>
        \A e \in PassEntities :
            (/\ StartsWith(e.path, <<"calculated", ":">>)
             /\ HandlerName(e.path) \notin
                    {<<"ram_total_size">>, <<"scale_bytes_per_second">>})
                => fetch.data[e.key] = None

\* The pass runs over the config entities built for n modules.
ConfigPass(n) == fetch.groups = GroupByEndpoint(ConfigList(n))
\* Where the entities with a RAM*_size key, and the RAM total, stand in the
\* groups of the pass: <<group, place in the group>>.
RamSizePlaces ==
    {<<i, j>> \in (DOMAIN fetch.groups) \X (1..(4 * MaxModules + 4)) :
        /\ j \in DOMAIN fetch.groups[i].entities
        /\ StartsWith(fetch.groups[i].entities[j].key, <<"RAM">>)
        /\ EndsWith(fetch.groups[i].entities[j].key, <<"_size">>)}
RamTotalPlaces ==
    {<<i, j>> \in (DOMAIN fetch.groups) \X (1..(4 * MaxModules + 4)) :
        /\ j \in DOMAIN fetch.groups[i].entities
        /\ fetch.groups[i].entities[j].path = RamTotalSize.path}
Before(a, b) == a[1] < b[1] \/ (a[1] = b[1] /\ a[2] < b[2])

\* C21: in every fetch pass over the built config entities (the static ones
\* followed by the RAM builder's output, grouped by endpoint in insertion
\* order) the RAM total stands after every RAM*_size entity in the order of
\* evaluation, it has no value before every RAM*_size entity of the pass
\* has one, and when the pass has returned with all module sizes numeric
\* the RAM total is the sum of the RAM module sizes of that pass.
C21_RamTotalAfterSizes ==
    \A n \in 0..MaxModules :
        ConfigPass(n) =>
            /\ Cardinality(RamSizePlaces) = n
            /\ Cardinality(RamTotalPlaces) = 1
            /\ \A s \in RamSizePlaces, t \in RamTotalPlaces : Before(s, t)
            /\ RamTotalKey \in DOMAIN fetch.data =>
                 \A s \in RamSizePlaces :
                    fetch.groups[s[1]].entities[s[2]].key \in DOMAIN fetch.data
            /\ (/\ fetch.pc = "done"
                /\ \A k \in RamSizeKeys(fetch.data) : IsNum(fetch.data[k]))
                 => fetch.data[RamTotalKey] =
                        Num(SumNums(fetch.data, RamSizeKeys(fetch.data)))

\* C21 witness: a returned pass over the config entities built for two
\* modules, whose sizes 8 and 16 were written and whose total is 24.
C21_Witness ==
    /\ ConfigPass(2) /\ fetch.pc = "done"
    /\ fetch.data[<<"RAM", "1", "_size">>] = Num(8)
    /\ fetch.data[<<"RAM", "2", "_size">>] = Num(16)
    /\ fetch.data[RamTotalKey] = Num(24)

\* The NIC builder has run on the count probed from a series.
LanDone ==
    /\ call.fn = "get_dynamic_status_entities_lan after count_dynamic_entities"
    /\ call.done
\* Entry idx (counted from 0, as the paths do) of the probed series.
SeriesEntry(idx) == call.series[idx + 1]

\* C29, as stated: for every net series the probe can see, the descriptor
\* groups built from the probed count address as many distinct entries of
\* the series as the probe counted, every one of them inside the series and
\* none of them an overview row.
C29_Original ==
    LanDone =>
        LET ix == call.out.indices
        IN  /\ Len(ix) = Len(NonOverview(call.series))
            /\ \A i, j \in DOMAIN ix : i # j => ix[i] # ix[j]
            /\ \A i \in DOMAIN ix :
                  /\ ix[i] + 1 \in DOMAIN call.series
                  /\ SeriesEntry(ix[i]) \notin {"overview", "Overview"}

\* The delay that follows the delay d in the sequence 1, 2, 5, 10, 15, 30,
\* 60, 60, ...; d = 0 stands for no failure yet.
DelayAfter(d) ==
    CASE d = 0 -> 1 [] d = 1 -> 2 [] d = 2 -> 5 [] d = 5 -> 10
      [] d = 10 -> 15 [] d = 15 -> 30 [] OTHER -> 60

\* C24: in the keep-alive loop the reconnect delay over consecutive
\* failures follows the sequence 1, 2, 5, 10, 15, 30, 60, 60, ...: the loop
\* sleeps the delay that follows the delay of the failure before, it never
\* sleeps less than after the failure before nor more than 60, and the
\* first failure after a successful websocket connect is slept 1.
C24_BackoffSequence ==
    state.task = "backoff_sleep" =>
        /\ state.sleep = state.last_delay
        /\ state.last_delay = DelayAfter(state.prev_delay)
        /\ state.last_delay >= state.prev_delay
        /\ state.last_delay <= 60

\* C24 witness: the loop sleeps 60 after a failure whose predecessor was
\* slept 60 as well, the list of delays being used up.
C24_Witness ==
    /\ state.task = "backoff_sleep" /\ state.sleep = 60
    /\ state.prev_delay = 60 /\ state.backoff = <<60>>

\* The loop attempts a connection with token t.
Attempting(t) == state.task = "connecting" /\ state.url = t

\* C25: while no token is available the keep-alive loop stays idle: it
\* never opens a websocket connection with an absent token, going idle
\* consumes no backoff step and counts no failure, and the idle sleep is
\* always 15 units; once the loop is idle and a token stands in the shared
\* application state, the loop eventually attempts a connection with that
\* token, unless it is stopped or the token is replaced before.
C25_IdleWithoutToken ==
    /\ [](state.task = "connecting" => Truthy(state.url))
    /\ [](state.task = "idle_sleep" =>
             state.sleep = IdleInterval /\ ~Truthy(state.token))
    /\ [][state'.task = "idle_sleep" =>
             /\ state'.backoff = state.backoff
             /\ state'.last_delay = state.last_delay
             /\ state'.prev_delay = state.prev_delay]_vars
    /\ \A t \in Tokens :
          (state.task = "idle_sleep" /\ state.ugreen_token = t)
              ~> (Attempting(t) \/ state.stop \/ state.ugreen_token # t)

\* C25 witness: after an idle sleep the loop attempts a connection with a
\* published token, the list of delays untouched and no failure counted.
C25_Witness ==
    /\ state.task = "connecting" /\ state.idled /\ state.url \in Tokens
    /\ state.url = state.ugreen_token
    /\ state.backoff = BackoffStart /\ state.last_delay = 0

\* C26: after the shutdown signal, wherever the loop is, the shutdown hook
\* returns, and when it has returned the loop task has ended and the HTTP
\* session is closed and cleared.
C26_ShutdownClosesSession ==
    /\ [](state.hook = "returned" =>
             state.task \in Ended /\ state.session = "none")
    /\ state.stop ~> (state.hook = "returned")

\* C26 witness: shutdown began while the loop slept in backoff after an
\* error; the task was cancelled there with the session open, and the hook
\* closed and cleared the session before it returned.
C26_Witness ==
    /\ state.hook = "returned" /\ state.at_stop = "backoff_sleep"
    /\ state.task = "cancelled" /\ state.hook_closed
    /\ state.session = "none"

=============================================================================
